---- MODULE Spec2Model ----
(***************************************************************************)
(* Client-side data reconciliation of the reading-race application         *)
(* (App component, revision with formatKSTDate and the 60 s save           *)
(* cooldown): several browser clients read and write one remote JSON       *)
(* document through GET / POST of the whole document.                      *)
(*                                                                         *)
(* Time is Date.now() in milliseconds.  A timestamp of a record is the     *)
(* number of milliseconds since the epoch (the value behind the ISO        *)
(* string); a civil day 'YYYY-MM-DD' is the number of days since the       *)
(* epoch.                                                                  *)
(***************************************************************************)
EXTENDS Integers, Sequences, FiniteSets, TLC

\* ---------------------------------------------------------------- bounds
MaxTicks == 3          \* number of clock steps the model takes
TickMs == 30000        \* milliseconds per clock step
MaxDay == 1            \* civil days 0..MaxDay can be submitted
MaxChapters == 2       \* chapter counts 0..MaxChapters can be submitted
MaxId == 2             \* number of fresh record ids (crypto.randomUUID)
MaxProcs == 2          \* asynchronous calls in flight per client
MaxOps == 3            \* submissions and deletions made by the users

\* ------------------------------------------------------ program constants
COOLDOWN_MS == 60000
KST_OFFSET_MS == 9 * 3600000
DAY_MS == 24 * 3600000
NOON_KST_UTC_MS == 3 * 3600000

Clients == {"c1", "c2"}
Depts == {"GIDEON", "DANIEL"}
Days == 0..MaxDay
ChapterInputs == 0..MaxChapters

\* the signed-in identity of each browser
Uid(c) == IF c = "c1" THEN "u1" ELSE "u2"

\* ------------------------------------------------------------- documents
INITIAL_DEPARTMENTS == << [id |-> "GIDEON"], [id |-> "DANIEL"] >>

InitialPopHistory ==
  << [startDate |-> 0, populations |-> [d \in Depts |-> 10]] >>

\* the top-level fields of the AppData document
Fields == {"records", "popHistory", "users", "departments"}

\* a document; has is the set of top-level fields that are present as lists
Doc(recs, hist, usrs, depts) ==
  [records |-> recs, popHistory |-> hist, users |-> usrs,
   departments |-> depts, has |-> Fields]

EmptyDoc == Doc(<< >>, << >>, << >>, << >>)

NoArgs == [chapters |-> 0, day |-> 0, dept |-> "", isAdmin |-> FALSE]

NoProfile == [uid |-> "", displayName |-> "", departmentId |-> ""]

\* --------------------------------------------------------------- helpers
Range(s) == {s[i] : i \in 1..Len(s)}

Ids(s) == {s[i].id : i \in 1..Len(s)}

\* formatKSTDate: the civil day of a timestamp in Asia/Seoul (UTC+9)
formatKSTDate(t) == (t + KST_OFFSET_MS) \div DAY_MS

\* new Date(Date.UTC(y, m - 1, d, 3, 0, 0)): 03:00 UTC of the civil day
UtcDate(day) == day * DAY_MS + NOON_KST_UTC_MS

\* the sequence without its i-th element
RemoveAt(s, i) == [j \in 1..(Len(s) - 1) |-> IF j < i THEN s[j] ELSE s[j + 1]]

\* splice(i) without a delete count: everything from i on is removed
SpliceToEnd(s, i) == SubSeq(s, 1, i - 1)

\* updatedRecords.splice(existingIndex, 1)
Splice(s, i) == RemoveAt(s, i)

\* records.filter(r => r.id !== id)
RECURSIVE FilterOutId(_, _)
FilterOutId(s, id) ==
  IF s = << >> THEN << >>
  ELSE IF Head(s).id # id THEN << Head(s) >> \o FilterOutId(Tail(s), id)
       ELSE FilterOutId(Tail(s), id)

\* insertion of one ledger entry behind the entries that start no later
RECURSIVE InsertByStart(_, _)
InsertByStart(s, e) ==
  IF s = << >> THEN << e >>
  ELSE IF Head(s).startDate <= e.startDate
       THEN << Head(s) >> \o InsertByStart(Tail(s), e)
       ELSE << e >> \o s

\* popHistory.sort((a, b) => time(a.startDate) - time(b.startDate)), stable
RECURSIVE SortByStart(_)
SortByStart(s) ==
  IF s = << >> THEN << >>
  ELSE InsertByStart(SortByStart(SubSeq(s, 1, Len(s) - 1)), s[Len(s)])

\* the admin rule with the isAdminRecord test negated
SameKeyAdminNegated(r, a, uid) ==
  /\ formatKSTDate(r.date) = a.day
  /\ IF a.isAdmin THEN ~r.isAdminRecord /\ r.departmentId = a.dept
     ELSE r.userId = uid

\* the same-day + same-key rule of saveDailyRecord's findIndex callback
SameKey(r, a, uid) ==
  /\ formatKSTDate(r.date) = a.day
  /\ IF a.isAdmin THEN r.isAdminRecord /\ r.departmentId = a.dept
     ELSE r.userId = uid

\* Array.prototype.findIndex, 1-based; 0 when nothing matches
FindIndex(s, a, uid) ==
  IF \E i \in 1..Len(s) : SameKey(s[i], a, uid)
  THEN CHOOSE i \in 1..Len(s) :
         /\ SameKey(s[i], a, uid)
         /\ \A j \in 1..(i - 1) : ~SameKey(s[j], a, uid)
  ELSE 0

\* targetUserId of saveDailyRecord
TargetUserId(a, profile) == IF a.isAdmin THEN "admin" ELSE profile.uid

\* userName written by saveDailyRecord
TargetUserName(a, profile) == IF a.isAdmin THEN "ADMIN" ELSE profile.displayName

\* the upsert computed on the list of the render, whatever was re-fetched
LatestRecordsFromRender(ok, data, capRecords) == capRecords

\* latestRecords of saveDailyRecord: the re-fetched list, or the list of the
\* render the handler was created in
LatestRecords(ok, data, capRecords) ==
  IF ok /\ "records" \in data.has THEN data.records ELSE capRecords

\* the record stamped with new Date(y, m - 1, d), midnight of the day in a
\* browser running at UTC+10
NewRecordLocalMidnight(a, profile, id) ==
  [id |-> id,
   departmentId |-> IF a.dept # "" THEN a.dept ELSE profile.departmentId,
   userId |-> TargetUserId(a, profile),
   userName |-> TargetUserName(a, profile),
   chapters |-> a.chapters,
   date |-> a.day * DAY_MS - 10 * 3600000,
   isAdminRecord |-> a.isAdmin]

\* the record saveDailyRecord synthesizes when nothing matches
NewRecord(a, profile, id) ==
  [id |-> id,
   departmentId |-> IF a.dept # "" THEN a.dept ELSE profile.departmentId,
   userId |-> TargetUserId(a, profile),
   userName |-> TargetUserName(a, profile),
   chapters |-> a.chapters,
   date |-> UtcDate(a.day),
   isAdminRecord |-> a.isAdmin]

\* the rewrite adding the submitted chapters to the stored ones
UpdatedRecordAccumulate(r, a, profile) ==
  [r EXCEPT !.chapters = @ + a.chapters,
            !.departmentId = IF a.dept # "" THEN a.dept ELSE @,
            !.userName = TargetUserName(a, profile)]

\* the rewrite moving the record to the department of the profile
UpdatedRecordFollowingProfile(r, a, profile) ==
  [r EXCEPT !.chapters = a.chapters,
            !.departmentId = IF a.dept # "" THEN a.dept
                             ELSE profile.departmentId,
            !.userName = TargetUserName(a, profile)]

\* the existing record as saveDailyRecord rewrites it
UpdatedRecord(r, a, profile) ==
  [r EXCEPT !.chapters = a.chapters,
            !.departmentId = IF a.dept # "" THEN a.dept ELSE @,
            !.userName = TargetUserName(a, profile)]

\* the submission handled as addRecord did: always a new record in front
UpsertAlwaysAdd(latest, a, profile, id) ==
  LET idx == FindIndex(latest, a, TargetUserId(a, profile)) IN
  IF a.chapters = 0
  THEN IF idx > 0 THEN [push |-> TRUE, out |-> Splice(latest, idx)]
       ELSE [push |-> FALSE, out |-> latest]
  ELSE [push |-> TRUE, out |-> << NewRecord(a, profile, id) >> \o latest]

\* the upsert without the early return of the nothing-to-delete case
UpsertNoEarlyReturn(latest, a, profile, id) ==
  LET idx == FindIndex(latest, a, TargetUserId(a, profile)) IN
  IF a.chapters = 0
  THEN IF idx > 0 THEN [push |-> TRUE, out |-> Splice(latest, idx)]
       ELSE [push |-> TRUE, out |-> latest]
  ELSE IF idx > 0
       THEN [push |-> TRUE,
             out |-> [latest EXCEPT ![idx] = UpdatedRecord(@, a, profile)]]
       ELSE [push |-> TRUE,
             out |-> << NewRecord(a, profile, id) >> \o latest]

\* updatedRecords of saveDailyRecord; push is FALSE on the early return
Upsert(latest, a, profile, id) ==
  LET idx == FindIndex(latest, a, TargetUserId(a, profile)) IN
  IF a.chapters = 0
  THEN IF idx > 0 THEN [push |-> TRUE, out |-> Splice(latest, idx)]
       ELSE [push |-> FALSE, out |-> latest]
  ELSE IF idx > 0
       THEN [push |-> TRUE,
             out |-> [latest EXCEPT ![idx] = UpdatedRecord(@, a, profile)]]
       ELSE [push |-> TRUE,
             out |-> << NewRecord(a, profile, id) >> \o latest]

\* updaters that clear the state of a field the document lacks
MergeFieldClearing(present, prev, new) ==
  IF present THEN (IF prev # new THEN new ELSE prev) ELSE << >>

\* the functional updaters of updateLocalState
MergeField(present, prev, new) ==
  IF present THEN (IF prev # new THEN new ELSE prev) ELSE prev

\* an updater that puts the fetched records behind the local ones
SetRecordsAppending(prev, new) == IF prev # new THEN prev \o new ELSE prev

\* the updater handed to setRecords by updateLocalState
SetRecords(prev, new) == IF prev # new THEN new ELSE prev

\* the cooldown test with the comparison turned around
InCooldownInverted(t, lst) == t - lst > COOLDOWN_MS

\* Date.now() - lastSaveTimeRef.current < 60000
InCooldown(t, lst) == t - lst < COOLDOWN_MS

\* ------------------------------------------------------ calls in flight
\* kind "load":  loadFromGoogleSheet awaiting its GET
\* kind "daily": saveDailyRecord awaiting its re-fetch
\* kind "push":  saveData awaiting its POST
\* seen (history, of a load): the records with an id above it were created
\* by saves that started after the GET was sent
LoadProc(silent, seen) ==
  [kind |-> "load", stage |-> "sent", silent |-> silent, data |-> EmptyDoc,
   a |-> NoArgs, profile |-> NoProfile, seen |-> seen]

DailyProc(a, cap, profile) ==
  [kind |-> "daily", stage |-> "sent", silent |-> TRUE, data |-> cap,
   a |-> a, profile |-> profile, seen |-> 0]

PushProc(payload) ==
  [kind |-> "push", stage |-> "sent", silent |-> TRUE, data |-> payload,
   a |-> NoArgs, profile |-> NoProfile, seen |-> 0]

VARIABLES
  tabs,         \* the clients whose browser tab is open
  now,          \* Date.now()
  nextId,       \* ids handed out by crypto.randomUUID so far
  ops,          \* submissions and deletions made so far
  remote,       \* the document held by the primary store
  records, popHistory, allUsers, departments,   \* working state per client
  cache,        \* localStorage[LOCAL_STORAGE_KEY] per client
  hasCache,     \* whether the cache entry exists
  userProfile,  \* profile of the signed-in user per client
  isAdminMode,
  isSyncing,
  isFetching,   \* isFetchingRef.current
  isLoading,    \* the spinner replaces the whole page while it is true
  lastSaveTime, \* lastSaveTimeRef.current
  mounted, hidden,
  procs,        \* asynchronous calls in flight, per client
  createdHere,  \* history: ids of the records a client created by a save
  deletedHere,  \* history: ids a client deleted, until a snapshot lacks them
  board,        \* the department scores a client has rendered last
  restored,     \* history: the working state was put by a restore of the
                \* backup and the client made no save since
  backup,       \* the backup store: whether it can be reached, the document
                \* it holds and the documents of the PUTs on their way to it
  last          \* history: the handler step taken last

dataVars == << records, popHistory, allUsers, departments >>
cacheVars == << cache, hasCache >>
uiVars == << userProfile, isAdminMode, mounted, hidden >>
histVars == << createdHere, deletedHere >>
vars == << tabs, restored, board, backup, isLoading, now, nextId, ops, remote, records, popHistory, allUsers, departments,
           cache, hasCache, userProfile, isAdminMode, isSyncing, isFetching,
           lastSaveTime, mounted, hidden, procs, createdHere, deletedHere,
           last >>

\* op: the handler that ran; c: its client; a: the arguments of
\* saveDailyRecord; ok: the GET succeeded with a body; idx: the result of
\* findIndex; was: the chapters of the matched record before the step;
\* applied: updateLocalState got past its cooldown check; alert: the text of
\* the window.alert raised, "" for none
Step(op, c, a, ok, idx, was, applied, alert) ==
  [op |-> op, c |-> c, a |-> a, ok |-> ok, idx |-> idx, was |-> was,
   applied |-> applied, alert |-> alert]

NoStep == Step("none", "", NoArgs, FALSE, 0, 0, FALSE, "")

WorkingDoc(c) == Doc(records[c], popHistory[c], allUsers[c], departments[c])

\* the profile each browser is signed in with
Profile(c) ==
  [uid |-> Uid(c), displayName |-> Uid(c),
   departmentId |-> IF c = "c1" THEN "GIDEON" ELSE "DANIEL"]

\* the state of the App component of every browser before it mounts
Fresh ==
  /\ now = COOLDOWN_MS
  /\ nextId = 0
  /\ ops = 0
  /\ records = [c \in Clients |-> << >>]
  /\ popHistory = [c \in Clients |-> InitialPopHistory]
  /\ allUsers = [c \in Clients |-> << >>]
  /\ departments = [c \in Clients |-> INITIAL_DEPARTMENTS]
  /\ isAdminMode = [c \in Clients |-> FALSE]
  /\ isSyncing = [c \in Clients |-> FALSE]
  /\ isFetching = [c \in Clients |-> FALSE]
  /\ isLoading = [c \in Clients |-> TRUE]
  /\ lastSaveTime = [c \in Clients |-> 0]
  /\ mounted = [c \in Clients |-> FALSE]
  /\ hidden = [c \in Clients |-> FALSE]
  /\ procs = [c \in Clients |-> << >>]
  /\ createdHere = [c \in Clients |-> {}]
  /\ deletedHere = [c \in Clients |-> {}]
  /\ board = [c \in Clients |-> [d \in Depts |-> [total |-> 0, average |-> 0, days |-> {}, buckets |-> {}]]]
  /\ last = NoStep
  /\ restored = [c \in Clients |-> FALSE]
  /\ backup \in {[up |-> u, doc |-> EmptyDoc, puts |-> {}] : u \in BOOLEAN}

\* browsers that have not been used before: nothing in localStorage; the
\* backup store cannot be reached
Blank ==
  /\ Fresh
  /\ ~backup.up
  /\ cache = [c \in Clients |-> EmptyDoc]
  /\ hasCache = [c \in Clients |-> FALSE]

\* the browsers before they mount, and the store of a new race
Start ==
  /\ Blank
  /\ remote = Doc(<< >>, InitialPopHistory, << >>, INITIAL_DEPARTMENTS)
  /\ userProfile = [c \in Clients |-> Profile(c)]

\* one browser, not in admin mode
Init ==
  /\ tabs = {"c1"}
  /\ Start

\* the clock advances
Tick ==
  /\ now < COOLDOWN_MS + MaxTicks * TickMs
  /\ now' = now + TickMs
  /\ last' = NoStep
  /\ UNCHANGED << tabs, restored, board, backup, isLoading, nextId, ops, remote, dataVars, cacheVars, uiVars, histVars,
                  isSyncing, isFetching, lastSaveTime, procs >>

\* ------------------------------------------------------------ fetching
\* loadFromGoogleSheet up to its await: the GET is sent
StartLoad(c, silent) ==
  /\ isFetching' = [isFetching EXCEPT ![c] = TRUE]
  /\ procs' = [procs EXCEPT ![c] = Append(@, LoadProc(silent,
                 IF \E k \in 1..Len(@) : @[k].kind = "daily"
                 THEN MaxId ELSE nextId))]

\* the guards of triggerSync
CanTrigger(c) ==
  /\ ~InCooldown(now, lastSaveTime[c])
  /\ ~isFetching[c]

\* a cache entry whose text JSON.parse throws on
Unparsable == [EmptyDoc EXCEPT !.has = {"unparsable"}]

\* loadedLocal of the mount effect: there is a cache entry and it parses
LoadedLocal(c) == hasCache[c] /\ cache[c] # Unparsable

\* the mount effect without its try and catch: the exception of JSON.parse
\* ends the effect before the fetch
MountWithoutCatch(c) ==
  /\ c \in tabs
  /\ ~mounted[c]
  /\ mounted' = [mounted EXCEPT ![c] = TRUE]
  /\ IF LoadedLocal(c)
     THEN /\ departments' = [departments EXCEPT ![c] =
                IF "departments" \in cache[c].has
                THEN cache[c].departments ELSE @]
          /\ records' = [records EXCEPT ![c] =
                IF "records" \in cache[c].has THEN cache[c].records ELSE @]
          /\ popHistory' = [popHistory EXCEPT ![c] =
                IF "popHistory" \in cache[c].has
                THEN cache[c].popHistory ELSE @]
          /\ allUsers' = [allUsers EXCEPT ![c] =
                IF "users" \in cache[c].has THEN cache[c].users ELSE @]
     ELSE UNCHANGED dataVars
  /\ IF hasCache[c] /\ ~LoadedLocal(c)
     THEN UNCHANGED << isFetching, procs >>
     ELSE StartLoad(c, LoadedLocal(c))
  /\ isLoading' = [isLoading EXCEPT ![c] = ~LoadedLocal(c)]
  /\ last' = NoStep
  /\ UNCHANGED << tabs, restored, board, backup, now, nextId, ops, remote, cacheVars, userProfile, isAdminMode,
                  hidden, histVars, isSyncing, lastSaveTime >>

\* the mount effect: read the cache, fetch, install timer and listener
Mount(c) ==
  /\ c \in tabs
  /\ ~mounted[c]
  /\ mounted' = [mounted EXCEPT ![c] = TRUE]
  /\ IF LoadedLocal(c)
     THEN /\ departments' = [departments EXCEPT ![c] =
                IF "departments" \in cache[c].has
                THEN cache[c].departments ELSE @]
          /\ records' = [records EXCEPT ![c] =
                IF "records" \in cache[c].has THEN cache[c].records ELSE @]
          /\ popHistory' = [popHistory EXCEPT ![c] =
                IF "popHistory" \in cache[c].has
                THEN cache[c].popHistory ELSE @]
          /\ allUsers' = [allUsers EXCEPT ![c] =
                IF "users" \in cache[c].has THEN cache[c].users ELSE @]
     ELSE UNCHANGED dataVars
  /\ StartLoad(c, LoadedLocal(c))
  /\ isLoading' = [isLoading EXCEPT ![c] = ~LoadedLocal(c)]
  /\ last' = NoStep
  /\ UNCHANGED << tabs, restored, board, backup, now, nextId, ops, remote, cacheVars, userProfile, isAdminMode,
                  hidden, histVars, isSyncing, lastSaveTime >>

\* an interval callback that polls while the document is hidden
TimerTickWhenHidden(c) ==
  /\ mounted[c]
  /\ hidden[c]
  /\ CanTrigger(c)
  /\ Len(procs[c]) < MaxProcs
  /\ StartLoad(c, TRUE)
  /\ last' = NoStep
  /\ UNCHANGED << tabs, restored, board, backup, isLoading, now, nextId, ops, remote, dataVars, cacheVars, uiVars, histVars,
                  isSyncing, lastSaveTime >>

\* the setInterval callback: if (!document.hidden) triggerSync(true)
TimerTick(c) ==
  /\ mounted[c]
  /\ ~hidden[c]
  /\ CanTrigger(c)
  /\ Len(procs[c]) < MaxProcs
  /\ StartLoad(c, TRUE)
  /\ last' = NoStep
  /\ UNCHANGED << tabs, restored, board, backup, isLoading, now, nextId, ops, remote, dataVars, cacheVars, uiVars, histVars,
                  isSyncing, lastSaveTime >>

\* the page is hidden or shown; the visibilitychange listener runs
VisibilityChange(c) ==
  /\ mounted[c]
  /\ hidden' = [hidden EXCEPT ![c] = ~@]
  /\ IF hidden[c] /\ CanTrigger(c) /\ Len(procs[c]) < MaxProcs
     THEN StartLoad(c, TRUE)
     ELSE UNCHANGED << isFetching, procs >>
  /\ last' = NoStep
  /\ UNCHANGED << tabs, restored, board, backup, isLoading, now, nextId, ops, remote, dataVars, cacheVars, userProfile,
                  isAdminMode, mounted, histVars, isSyncing, lastSaveTime >>

\* the primary store answers a GET with its document
LoadServe(c, i) ==
  /\ i \in 1..Len(procs[c])
  /\ procs[c][i].kind = "load"
  /\ procs[c][i].stage = "sent"
  /\ procs'= [procs EXCEPT ![c][i] = [@ EXCEPT !.stage = "resp",
                                                !.data = remote]]
  /\ last' = NoStep
  /\ UNCHANGED << tabs, restored, board, backup, isLoading, now, nextId, ops, remote, dataVars, cacheVars, uiVars, histVars,
                  isSyncing, isFetching, lastSaveTime >>

\* updateLocalState(data) with lastSaveTimeRef.current at lst
UpdateLocalStateAt(c, data, lst) ==
  IF InCooldown(now, lst)
  THEN UNCHANGED << dataVars, cacheVars >>
  ELSE /\ cache' = [cache EXCEPT ![c] = data]
       /\ hasCache' = [hasCache EXCEPT ![c] = TRUE]
       /\ departments' = [departments EXCEPT ![c] =
            MergeField("departments" \in data.has, @, data.departments)]
       /\ records' = [records EXCEPT ![c] =
            IF "records" \in data.has THEN SetRecords(@, data.records)
            ELSE @]
       /\ popHistory' = [popHistory EXCEPT ![c] =
            MergeField("popHistory" \in data.has, @,
                       SortByStart(data.popHistory))]
       /\ allUsers' = [allUsers EXCEPT ![c] =
            MergeField("users" \in data.has, @, data.users)]

\* updateLocalState(data)
UpdateLocalState(c, data) == UpdateLocalStateAt(c, data, lastSaveTime[c])

\* a delete is confirmed once a snapshot without the record has been seen
SeenSnapshot(c, data) ==
  deletedHere' = [deletedHere EXCEPT ![c] =
     IF "records" \in data.has THEN @ \cap Ids(data.records) ELSE @]

\* loadFromGoogleSheet after its await: res.ok with a body
LoadDeliver(c, i) ==
  /\ i \in 1..Len(procs[c])
  /\ procs[c][i].kind = "load"
  /\ procs[c][i].stage = "resp"
  /\ UpdateLocalState(c, procs[c][i].data)
  /\ SeenSnapshot(c, procs[c][i].data)
  /\ isFetching' = [isFetching EXCEPT ![c] = FALSE]
  /\ procs' = [procs EXCEPT ![c] = RemoveAt(@, i)]
  /\ isLoading' = [isLoading EXCEPT ![c] =
                     IF procs[c][i].silent THEN @ ELSE FALSE]
  /\ last' = Step("load", c, NoArgs, TRUE, 0, 0,
                  ~InCooldown(now, lastSaveTime[c]), "")
  /\ UNCHANGED << tabs, restored, board, backup, now, nextId, ops, remote, uiVars, createdHere, isSyncing,
                  lastSaveTime >>

\* a failed GET that leaves isFetchingRef set: the flag cleared on success
\* only
LoadFailKeepingFlag(c, i) ==
  /\ i \in 1..Len(procs[c])
  /\ procs[c][i].kind = "load"
  /\ procs[c][i].stage = "sent"
  /\ procs' = [procs EXCEPT ![c] = RemoveAt(@, i)]
  /\ isLoading' = [isLoading EXCEPT ![c] =
                     IF procs[c][i].silent THEN @ ELSE FALSE]
  /\ last' = Step("load", c, NoArgs, FALSE, 0, 0, FALSE, "")
  /\ UNCHANGED << tabs, restored, board, backup, now, nextId, ops, remote, dataVars, cacheVars, uiVars, histVars,
                  isSyncing, isFetching, lastSaveTime >>

\* loadFromGoogleSheet after its await: the GET is rejected, is not OK or
\* has an empty body
LoadFail(c, i) ==
  /\ i \in 1..Len(procs[c])
  /\ procs[c][i].kind = "load"
  /\ procs[c][i].stage = "sent"
  /\ isFetching' = [isFetching EXCEPT ![c] = FALSE]
  /\ procs' = [procs EXCEPT ![c] = RemoveAt(@, i)]
  /\ isLoading' = [isLoading EXCEPT ![c] =
                     IF procs[c][i].silent THEN @ ELSE FALSE]
  /\ last' = Step("load", c, NoArgs, FALSE, 0, 0, FALSE, "")
  /\ UNCHANGED << tabs, restored, board, backup, now, nextId, ops, remote, dataVars, cacheVars, uiVars, histVars,
                  isSyncing, lastSaveTime >>

\* ---------------------------------------------------------------- saving
\* saveData up to its await: optimistic apply, cache write, POST sent;
\* others are the calls that stay in flight
SaveData(c, recs, hist, usrs, depts, others) ==
  /\ isSyncing' = [isSyncing EXCEPT ![c] = TRUE]
  /\ lastSaveTime' = [lastSaveTime EXCEPT ![c] = now]
  /\ records' = [records EXCEPT ![c] = recs]
  /\ popHistory' = [popHistory EXCEPT ![c] = hist]
  /\ allUsers' = [allUsers EXCEPT ![c] = usrs]
  /\ departments' = [departments EXCEPT ![c] = depts]
  /\ cache' = [cache EXCEPT ![c] = Doc(recs, hist, usrs, depts)]
  /\ hasCache' = [hasCache EXCEPT ![c] = TRUE]
  /\ procs' = [procs EXCEPT ![c] =
                 Append(others, PushProc(Doc(recs, hist, usrs, depts)))]

\* saveDailyRecord calls that will ask for a fresh id
IdsReserved ==
  Cardinality({ci \in Clients \X (1..MaxProcs) :
                 /\ ci[2] <= Len(procs[ci[1]])
                 /\ procs[ci[1]][ci[2]].kind = "daily"
                 /\ procs[ci[1]][ci[2]].a.chapters > 0})

\* saveDailyRecord up to its first await: the guards, the cooldown stamp and
\* the re-fetch; date is the day typed into the form, -1 for none
SaveDailyRecord(c, chapters, date, dept) ==
  LET a == [chapters |-> chapters,
            day |-> IF date = -1 THEN formatKSTDate(now) ELSE date,
            dept |-> dept,
            isAdmin |-> isAdminMode[c]]
  IN
  /\ mounted[c]
  /\ ~isLoading[c]
  /\ IF isAdminMode[c] THEN dept \in Ids(departments[c])
     ELSE dept = "" /\ userProfile[c].departmentId # ""
  /\ ~isSyncing[c]
  /\ Len(procs[c]) < MaxProcs
  /\ chapters > 0 => nextId + IdsReserved < MaxId
  /\ isSyncing' = [isSyncing EXCEPT ![c] = TRUE]
  /\ lastSaveTime' = [lastSaveTime EXCEPT ![c] = now]
  /\ procs' = [procs EXCEPT ![c] =
                 Append(@, DailyProc(a, WorkingDoc(c), userProfile[c]))]
  /\ ops < MaxOps
  /\ ops' = ops + 1
  /\ last' = NoStep
  /\ restored' = [restored EXCEPT ![c] = FALSE]
  /\ UNCHANGED << tabs, board, backup, isLoading, now, nextId, remote, dataVars, cacheVars, uiVars, histVars,
                  isFetching >>

\* saveDailyRecord after its re-fetch resolved (ok or not): the upsert on
\* the freshest list and the call of saveData, or the early return
DailyCompute(c, i, ok) ==
  /\ i \in 1..Len(procs[c])
  /\ procs[c][i].kind = "daily"
  /\ LET p == procs[c][i]
         latest == LatestRecords(ok, remote, p.data.records)
         idx == FindIndex(latest, p.a, TargetUserId(p.a, p.profile))
         up == Upsert(latest, p.a, p.profile, nextId + 1)
     IN
     /\ IF up.push
        THEN SaveData(c, up.out, p.data.popHistory, p.data.users,
                      p.data.departments, RemoveAt(procs[c], i))
        ELSE /\ isSyncing' = [isSyncing EXCEPT ![c] = FALSE]
             /\ procs' = [procs EXCEPT ![c] = RemoveAt(@, i)]
             /\ UNCHANGED << dataVars, cacheVars, lastSaveTime >>
     /\ nextId' = IF Ids(up.out) \subseteq Ids(latest) THEN nextId
                  ELSE nextId + 1
     /\ createdHere' = [createdHere EXCEPT ![c] =
                          @ \cup (Ids(up.out) \ Ids(latest))]
     /\ deletedHere' = [deletedHere EXCEPT ![c] =
          (IF ok /\ "records" \in remote.has THEN @ \cap Ids(latest) ELSE @)
            \cup (Ids(latest) \ Ids(up.out))]
     /\ last' = Step("daily", c, p.a, ok, idx,
                     IF idx > 0 THEN latest[idx].chapters ELSE 0, FALSE, "")
  /\ restored' = [restored EXCEPT ![c] = FALSE]
  /\ UNCHANGED << tabs, board, backup, isLoading, now, ops, remote, uiVars, isFetching >>

\* a catch of saveDailyRecord without its finally: the flag stays set
DailyThrowKeepingSaving(c, i) ==
  /\ i \in 1..Len(procs[c])
  /\ procs[c][i].kind = "daily"
  /\ procs' = [procs EXCEPT ![c] = RemoveAt(@, i)]
  /\ last' = Step("dailyThrow", c, procs[c][i].a, FALSE, 0, 0, FALSE,
                  "save failed")
  /\ UNCHANGED << tabs, restored, board, backup, isLoading, now, nextId, ops, remote, dataVars, cacheVars, uiVars, histVars,
                  isFetching, lastSaveTime, isSyncing >>

\* saveDailyRecord after its re-fetch threw: catch and finally
DailyThrow(c, i) ==
  /\ i \in 1..Len(procs[c])
  /\ procs[c][i].kind = "daily"
  /\ isSyncing' = [isSyncing EXCEPT ![c] = FALSE]
  /\ procs' = [procs EXCEPT ![c] = RemoveAt(@, i)]
  /\ last' = Step("dailyThrow", c, procs[c][i].a, FALSE, 0, 0, FALSE,
                  "save failed")
  /\ UNCHANGED << tabs, restored, board, backup, isLoading, now, nextId, ops, remote, dataVars, cacheVars, uiVars, histVars,
                  isFetching, lastSaveTime >>

\* deleteRecord(id), confirmed; the button is rendered in admin mode
DeleteRecord(c, id) ==
  /\ mounted[c]
  /\ ~isLoading[c]
  /\ isAdminMode[c]
  /\ id \in Ids(records[c])
  /\ Len(procs[c]) < MaxProcs
  /\ SaveData(c, FilterOutId(records[c], id), popHistory[c], allUsers[c],
              departments[c], procs[c])
  /\ deletedHere' = [deletedHere EXCEPT ![c] = @ \cup {id}]
  /\ ops < MaxOps
  /\ ops' = ops + 1
  /\ last' = Step("delete", c, NoArgs, FALSE, 0, 0, FALSE, "")
  /\ restored' = [restored EXCEPT ![c] = FALSE]
  /\ UNCHANGED << tabs, board, backup, isLoading, now, nextId, remote, uiVars, createdHere, isFetching >>

\* a store that appends the posted records to the ones it holds
StoreMerge(doc, payload) ==
  [payload EXCEPT !.records = doc.records \o payload.records]

\* the primary store keeps the posted document in place of its own
StoreReplace(doc, payload) == payload

\* the primary store receives a POST and replaces its document
PushArrive(c, i) ==
  /\ i \in 1..Len(procs[c])
  /\ procs[c][i].kind = "push"
  /\ procs[c][i].stage = "sent"
  /\ remote' = StoreReplace(remote, procs[c][i].data)
  /\ procs' = [procs EXCEPT ![c][i] = [@ EXCEPT !.stage = "arrived"]]
  /\ last' = NoStep
  /\ UNCHANGED << tabs, restored, board, backup, isLoading, now, nextId, ops, dataVars, cacheVars, uiVars, histVars,
                  isSyncing, isFetching, lastSaveTime >>

\* saveData after its await: the POST resolved and the PUT to the backup
\* store is sent without being awaited; a PUT to a store that cannot be
\* reached is rejected and the rejection is swallowed
PushResolve(c, i) ==
  /\ i \in 1..Len(procs[c])
  /\ procs[c][i].kind = "push"
  /\ procs[c][i].stage = "arrived"
  /\ backup' = IF backup.up
                THEN [backup EXCEPT !.puts = @ \cup {procs[c][i].data}]
                ELSE backup
  /\ lastSaveTime' = [lastSaveTime EXCEPT ![c] = now]
  /\ isSyncing' = [isSyncing EXCEPT ![c] = FALSE]
  /\ procs' = [procs EXCEPT ![c] = RemoveAt(@, i)]
  /\ last' = NoStep
  /\ UNCHANGED << tabs, restored, board, isLoading, now, nextId, ops, remote, dataVars, cacheVars, uiVars, histVars,
                  isFetching >>

\* a rejected POST after which the PUT to the backup store is sent all the
\* same
PushRejectSendingBackup(c, i) ==
  /\ i \in 1..Len(procs[c])
  /\ procs[c][i].kind = "push"
  /\ backup' = IF backup.up
                THEN [backup EXCEPT !.puts = @ \cup {procs[c][i].data}]
                ELSE backup
  /\ lastSaveTime' = [lastSaveTime EXCEPT ![c] = 0]
  /\ isSyncing' = [isSyncing EXCEPT ![c] = FALSE]
  /\ procs' = [procs EXCEPT ![c] = RemoveAt(@, i)]
  /\ last' = Step("pushFailed", c, NoArgs, FALSE, 0, 0, FALSE,
                  "send failed")
  /\ UNCHANGED << tabs, restored, board, isLoading, now, nextId, ops, remote, dataVars, cacheVars, uiVars, histVars,
                  isFetching >>

\* saveData after its await: the POST was rejected (network failure, before
\* or after the store received it)
PushReject(c, i) ==
  /\ i \in 1..Len(procs[c])
  /\ procs[c][i].kind = "push"
  /\ lastSaveTime' = [lastSaveTime EXCEPT ![c] = 0]
  /\ isSyncing' = [isSyncing EXCEPT ![c] = FALSE]
  /\ procs' = [procs EXCEPT ![c] = RemoveAt(@, i)]
  /\ last' = Step("pushFailed", c, NoArgs, FALSE, 0, 0, FALSE,
                  "send failed")
  /\ UNCHANGED << tabs, restored, board, backup, isLoading, now, nextId, ops, remote, dataVars, cacheVars, uiVars, histVars,
                  isFetching >>

\* handleAdminLogin with the password typed into the admin panel
HandleAdminLogin(c, pw) ==
  /\ mounted[c]
  /\ ~isLoading[c]
  /\ ~isAdminMode[c]
  /\ isAdminMode' = [isAdminMode EXCEPT ![c] = (pw = "djcjbch")]
  /\ last' = IF pw = "djcjbch" THEN NoStep
              ELSE Step("adminLogin", c, NoArgs, FALSE, 0, 0, FALSE,
                        "wrong password")
  /\ UNCHANGED << tabs, restored, board, backup, isLoading, now, nextId, ops, remote, dataVars, cacheVars, userProfile,
                  mounted, hidden, histVars, isSyncing, isFetching,
                  lastSaveTime, procs >>

\* ------------------------------------------------------- specifications
LoadSteps ==
  \/ \E c \in Clients : \E i \in 1..MaxProcs : LoadServe(c, i)
  \/ \E c \in Clients : \E i \in 1..MaxProcs : LoadDeliver(c, i)
  \/ \E c \in Clients : \E i \in 1..MaxProcs : LoadFail(c, i)

DailySteps ==
  \/ \E c \in Clients : \E ch \in ChapterInputs : \E d \in Days \cup {-1} :
       \E dept \in Depts \cup {""} : SaveDailyRecord(c, ch, d, dept)
  \/ \E c \in Clients : \E i \in 1..MaxProcs : \E ok \in BOOLEAN :
       DailyCompute(c, i, ok)
  \/ \E c \in Clients : \E i \in 1..MaxProcs : DailyThrow(c, i)

PushSteps ==
  \/ \E c \in Clients : \E i \in 1..MaxProcs : PushArrive(c, i)
  \/ \E c \in Clients : \E i \in 1..MaxProcs : PushResolve(c, i)
  \/ \E c \in Clients : \E i \in 1..MaxProcs : PushReject(c, i)

\* the save paths of a user and of the administrator; the clock stands
\* still and the page stays visible
Next ==
  \/ \E c \in Clients : Mount(c)
  \/ \E c \in Clients : TimerTick(c)
  \/ LoadSteps
  \/ DailySteps
  \/ \E c \in Clients : \E id \in 1..MaxId : DeleteRecord(c, id)
  \/ PushSteps
  \/ \E c \in Clients : \E pw \in {"djcjbch", "guess"} : HandleAdminLogin(c, pw)

Spec == Init /\ [][Next]_vars

\* polling, visibility and the cooldown clock around the saves of a user
NextSync ==
  \/ Tick
  \/ \E c \in Clients : Mount(c)
  \/ \E c \in Clients : TimerTick(c)
  \/ \E c \in Clients : VisibilityChange(c)
  \/ LoadSteps
  \/ DailySteps
  \/ PushSteps

SpecSync == Init /\ [][NextSync]_vars

\* ----------------------------------------------------------- properties
\* the documents a client has handed to a POST that is still in flight
PushedDocs(c) ==
  {procs[c][i].data : i \in {k \in 1..Len(procs[c]) : procs[c][k].kind = "push"}}

\* the number of POSTs a client has in flight
PushCount(ps) == Cardinality({k \in 1..Len(ps) : ps[k].kind = "push"})

\* the number of background GETs a client has in flight
LoadCount(ps) == Cardinality({k \in 1..Len(ps) : ps[k].kind = "load"})

OnePerUserDay(s) ==
  \A i, j \in 1..Len(s) :
    (i < j /\ ~s[i].isAdminRecord /\ ~s[j].isAdminRecord
           /\ s[i].userId = s[j].userId)
      => formatKSTDate(s[i].date) # formatKSTDate(s[j].date)

OnePerDeptDay(s) ==
  \A i, j \in 1..Len(s) :
    (i < j /\ s[i].isAdminRecord /\ s[j].isAdminRecord
           /\ s[i].departmentId = s[j].departmentId)
      => formatKSTDate(s[i].date) # formatKSTDate(s[j].date)

C2_OneAdminRecordPerDeptDay ==
  /\ OnePerDeptDay(remote.records)
  /\ \A c \in Clients :
       /\ OnePerDeptDay(records[c])
       /\ \A d \in PushedDocs(c) : OnePerDeptDay(d.records)

\* the administrator resubmitted a department and day with another count
C2_Witness ==
  /\ last.op = "daily"
  /\ last.a.isAdmin
  /\ last.a.chapters > 0
  /\ last.idx > 0
  /\ last.was # last.a.chapters
  /\ records[last.c][last.idx].chapters = last.a.chapters
  /\ records[last.c][last.idx].isAdminRecord
  /\ records[last.c][last.idx].departmentId = last.a.dept

\* the list already holds the outcome of this very submission: exactly one
\* record of the key, with the submitted chapters and the submitter's name
AlreadyStored(latest, a, profile) ==
  /\ a.chapters > 0
  /\ \E i \in 1..Len(latest) :
       /\ SameKey(latest[i], a, TargetUserId(a, profile))
       /\ latest[i].chapters = a.chapters
       /\ latest[i].userName = TargetUserName(a, profile)
       /\ \A j \in 1..Len(latest) :
            SameKey(latest[j], a, TargetUserId(a, profile)) => j = i

C4_ZeroRemovesExactlyTheMatch ==
  [][\A c \in Clients : \A i \in 1..MaxProcs : \A ok \in BOOLEAN :
       (/\ DailyCompute(c, i, ok)
        /\ procs[c][i].a.chapters = 0)
       => LET p == procs[c][i]
              uid == TargetUserId(p.a, p.profile)
              latest == LatestRecords(ok, remote, p.data.records)
              out == records'[c]
          IN (\E r \in Range(latest) : SameKey(r, p.a, uid))
             => /\ Len(out) = Len(latest) - 1
                /\ \A r \in Range(latest) :
                     ~SameKey(r, p.a, uid) => r \in Range(out)
                /\ \A r \in Range(out) :
                     r \in Range(latest) /\ ~SameKey(r, p.a, uid)
                /\ cache'[c].records = out
                /\ PushCount(procs'[c]) = PushCount(procs[c]) + 1
                /\ procs'[c][Len(procs'[c])].data.records = out]_vars

\* a zero-chapter submission found its record while another record was
\* there, and the other record is what is left
C4_Witness ==
  /\ last.op = "daily"
  /\ last.a.chapters = 0
  /\ last.idx > 0
  /\ Len(records[last.c]) > 0

C6_EmptySnapshotNotApplied ==
  [][\A c \in Clients : \A i \in 1..MaxProcs :
       (/\ LoadDeliver(c, i)
        /\ "records" \in procs[c][i].data.has
        /\ procs[c][i].data.records = << >>
        /\ Len(records[c]) > 1)
       => records'[c] = records[c]]_vars

\* C7: a record this client created and still shows stays in the working
\* collection when a fetched snapshot without its id is reconciled
C7_LocalRecordSurvivesReconcile ==
  [][\A c \in Clients : \A i \in 1..MaxProcs :
       (/\ LoadDeliver(c, i)
        /\ "records" \in procs[c][i].data.has)
       => \A x \in createdHere[c] \cap Ids(records[c]) :
            x \notin Ids(procs[c][i].data.records)
              => x \in Ids(records'[c])]_vars

\* the number of records of a list that carry the id
Occurrences(s, x) == Cardinality({k \in 1..Len(s) : s[k].id = x})

\* C8: when a fetched snapshot that holds the id of a record this client
\* created is delivered, the working collection never holds the record
\* twice, and holds it exactly once if the snapshot is applied
C8_ConfirmedRecordHeldOnce ==
  [][\A c \in Clients : \A i \in 1..MaxProcs :
       (/\ LoadDeliver(c, i)
        /\ "records" \in procs[c][i].data.has)
       => \A x \in createdHere[c] \cap Ids(procs[c][i].data.records) :
            /\ Occurrences(records'[c], x) <= 1
            /\ now - lastSaveTime[c] >= COOLDOWN_MS
                 => Occurrences(records'[c], x) = 1]_vars

\* a snapshot holding a record this client created has been applied
C8_Witness ==
  /\ last.op = "load"
  /\ last.ok
  /\ last.applied
  /\ createdHere[last.c] \cap Ids(records[last.c]) # {}
  /\ cache[last.c].records = records[last.c]

\* C9: a record this client deleted is in its working collection again only
\* after a snapshot without the record has been seen
C9_DeletedStaysSuppressed ==
  \A c \in Clients : deletedHere[c] \cap Ids(records[c]) = {}

\* C10: within 60 s of the last save stamp no background GET is started,
\* and the working state changes only in the client's own save steps
C10_CooldownShieldsWorkingState ==
  [][\A c \in Clients :
       now - lastSaveTime[c] < COOLDOWN_MS
       => /\ LoadCount(procs'[c]) <= LoadCount(procs[c])
          /\ \/ last'.op = "daily" /\ last'.c = c
             \/ /\ records'[c] = records[c]
                /\ popHistory'[c] = popHistory[c]
                /\ allUsers'[c] = allUsers[c]
                /\ departments'[c] = departments[c]]_vars

\* a snapshot that differs from the working records was delivered within
\* the cooldown window and left the working state alone
C10_Witness ==
  /\ last.op = "load"
  /\ last.ok
  /\ ~last.applied
  /\ now - lastSaveTime[last.c] < COOLDOWN_MS
  /\ records[last.c] # << >>
  /\ remote.records # records[last.c]

\* C11: every step that reports a failed save to the user (the alert of
\* saveData's catch or of saveDailyRecord's catch) leaves the client outside
\* the cooldown window, so that the next timer or visibility tick may fetch
C11_SaveFailureResetsCooldown ==
  [][\A c \in Clients :
       (last'.c = c /\ last'.alert \in {"save failed", "send failed"})
       => ~(now' - lastSaveTime'[c] < COOLDOWN_MS)]_vars

\* C12: a snapshot whose GET was sent before a save started and that is
\* delivered after the save keeps the record that save created in the
\* working collection
C12_StaleSnapshotKeepsSavedChange ==
  [][\A c \in Clients : \A i \in 1..MaxProcs :
       (/\ LoadDeliver(c, i)
        /\ "records" \in procs[c][i].data.has)
       => \A x \in createdHere[c] \cap Ids(records[c]) :
            x > procs[c][i].seen => x \in Ids(records'[c])]_vars

\* ------------------------------------------------- the settings panel
\* handleGoogleSheetSave: the button of the admin panel calls
\* loadFromGoogleSheet directly, past the guards of triggerSync
HandleGoogleSheetSave(c) ==
  /\ mounted[c]
  /\ ~isLoading[c]
  /\ isAdminMode[c]
  /\ Len(procs[c]) < MaxProcs
  /\ StartLoad(c, FALSE)
  /\ isLoading' = [isLoading EXCEPT ![c] = TRUE]
  /\ last' = Step("settings", c, NoArgs, FALSE, 0, 0, FALSE, "settings saved")
  /\ UNCHANGED << tabs, restored, board, backup, now, nextId, ops, remote, dataVars, cacheVars, uiVars,
                  histVars, isSyncing, lastSaveTime >>

\* polling and the settings panel of the administrator, without saves
NextSettings ==
  \/ Tick
  \/ \E c \in Clients : Mount(c)
  \/ \E c \in Clients : TimerTick(c)
  \/ \E c \in Clients : VisibilityChange(c)
  \/ \E c \in Clients : \E pw \in {"djcjbch", "guess"} : HandleAdminLogin(c, pw)
  \/ \E c \in Clients : HandleGoogleSheetSave(c)
  \/ LoadSteps

SpecSettings == Init /\ [][NextSettings]_vars

\* C13: a client has at most one background GET in flight, and
\* isFetchingRef is true exactly while one is in flight
C13_SingleFetchInFlight ==
  \A c \in Clients :
    /\ LoadCount(procs[c]) <= 1
    /\ isFetching[c] <=> LoadCount(procs[c]) > 0

\* C14: a client is never fetching and saving at the same time
C14_FetchingExcludesSaving ==
  \A c \in Clients : ~(isFetching[c] /\ isSyncing[c])

\* C15: when the pre-save re-fetch of an upsert returned a record list, the
\* list the upsert pushes is that list with only the record of the
\* submitted (key, day) added, changed or removed: every other record of
\* the snapshot is pushed unchanged and nothing else is added
C15_UpsertKeepsOtherKeys ==
  [][\A c \in Clients : \A i \in 1..MaxProcs :
       (/\ DailyCompute(c, i, TRUE)
        /\ "records" \in remote.has
        /\ PushCount(procs'[c]) > PushCount(procs[c]))
       => LET a == procs[c][i].a
              uid == TargetUserId(a, procs[c][i].profile)
              snap == remote.records
              pushed == procs'[c][Len(procs'[c])].data.records
          IN /\ \A k \in 1..Len(snap) :
                  ~SameKey(snap[k], a, uid) => snap[k] \in Range(pushed)
             /\ \A r \in Range(pushed) :
                  r \in Range(snap) \/ SameKey(r, a, uid)]_vars

\* an upsert whose re-fetch succeeded has pushed a list that still holds a
\* record of another (key, day) of the stored document
C15_Witness ==
  /\ last.op = "daily"
  /\ last.ok
  /\ PushCount(procs[last.c]) > 0
  /\ \E r \in Range(remote.records) :
       /\ ~SameKey(r, last.a, TargetUserId(last.a, userProfile[last.c]))
       /\ r \in Range(records[last.c])

\* ------------------------------------------- one account on two devices
\* both browsers are open and signed in with the same account
InitPair ==
  /\ tabs = Clients
  /\ Blank
  /\ remote = Doc(<< >>, InitialPopHistory, << >>, INITIAL_DEPARTMENTS)
  /\ userProfile = [c \in Clients |-> Profile("c1")]

NextPair ==
  \/ \E c \in Clients : Mount(c)
  \/ LoadSteps
  \/ DailySteps
  \/ PushSteps

SpecPair == InitPair /\ [][NextPair]_vars

\* C16: the stored document changes only when a POST arrives; it is then
\* the document that POST carries, with at most one record per key and day,
\* so after two clients upserted one (key, day) the store holds the record
\* of the POST that arrived last
C16_LastArrivedPushWins ==
  [][remote' # remote
       => \E c \in Clients : \E i \in 1..MaxProcs :
            /\ PushArrive(c, i)
            /\ remote'.records = procs[c][i].data.records
            /\ OnePerUserDay(remote'.records)
            /\ OnePerDeptDay(remote'.records)]_vars

\* the POSTs of both clients for the same user and day have arrived with
\* different chapters; the store holds one record
C16_Witness ==
  \E i, j \in 1..MaxProcs :
    /\ i <= Len(procs["c1"]) /\ j <= Len(procs["c2"])
    /\ procs["c1"][i].kind = "push" /\ procs["c1"][i].stage = "arrived"
    /\ procs["c2"][j].kind = "push" /\ procs["c2"][j].stage = "arrived"
    /\ Len(procs["c1"][i].data.records) = 1
    /\ Len(procs["c2"][j].data.records) = 1
    /\ procs["c1"][i].data.records[1].userId = procs["c2"][j].data.records[1].userId
    /\ procs["c1"][i].data.records[1].date = procs["c2"][j].data.records[1].date
    /\ procs["c1"][i].data.records[1].chapters # procs["c2"][j].data.records[1].chapters
    /\ Len(remote.records) = 1

\* ------------------------------------- documents with missing fields
\* the values a top-level field of the stored document may have: the
\* default of a fresh App, or another list
FieldValues(f) ==
  IF f = "records"
  THEN {<< >>, << NewRecord([chapters |-> 1, day |-> 0, dept |-> "",
                            isAdmin |-> FALSE], Profile("c1"), 1) >>}
  ELSE IF f = "popHistory"
  THEN {InitialPopHistory,
        << [startDate |-> DAY_MS, populations |-> [d \in Depts |-> 20]],
           [startDate |-> 0, populations |-> [d \in Depts |-> 10]] >>}
  ELSE IF f = "users" THEN {<< >>, << Profile("c1") >>}
  ELSE {INITIAL_DEPARTMENTS, << [id |-> "GIDEON"] >>}

\* stored documents of which some top-level fields are missing or are not
\* lists; a field that is not present as a list is written as << >>
IngestDocs ==
  {[records |-> IF "records" \in hs THEN r ELSE << >>,
    popHistory |-> IF "popHistory" \in hs THEN h ELSE << >>,
    users |-> IF "users" \in hs THEN u ELSE << >>,
    departments |-> IF "departments" \in hs THEN d ELSE << >>,
    has |-> hs] :
     r \in FieldValues("records"), h \in FieldValues("popHistory"),
     u \in FieldValues("users"), d \in FieldValues("departments"),
     hs \in SUBSET Fields}

\* one browser in front of a store whose document may lack fields
InitIngest ==
  /\ tabs = {"c1"}
  /\ Blank
  /\ remote \in IngestDocs
  /\ userProfile = [c \in Clients |-> Profile(c)]

NextIngest ==
  \/ Tick
  \/ \E c \in Clients : Mount(c)
  \/ \E c \in Clients : TimerTick(c)
  \/ \E c \in Clients : VisibilityChange(c)
  \/ LoadSteps

SpecIngest == InitIngest /\ [][NextIngest]_vars

\* C17: when updateLocalState applies a fetched document, each top-level
\* field that is present as a list replaces the local state of that field
\* (the ledger sorted by startDate), and the local state of each field that
\* is missing is left as it was
C17_PerFieldIngest ==
  [][\A c \in Clients : \A i \in 1..MaxProcs :
       (/\ LoadDeliver(c, i)
        /\ ~(now - lastSaveTime[c] < COOLDOWN_MS))
       => LET d == procs[c][i].data IN
          /\ records'[c] = IF "records" \in d.has THEN d.records
                            ELSE records[c]
          /\ popHistory'[c] = IF "popHistory" \in d.has
                               THEN SortByStart(d.popHistory)
                               ELSE popHistory[c]
          /\ allUsers'[c] = IF "users" \in d.has THEN d.users
                             ELSE allUsers[c]
          /\ departments'[c] = IF "departments" \in d.has THEN d.departments
                                ELSE departments[c]]_vars

\* a document with records but without departments was applied: the
\* records were taken and the departments are the ones held before
C17_Witness ==
  /\ last.op = "load"
  /\ last.applied
  /\ "records" \in cache[last.c].has
  /\ "departments" \notin cache[last.c].has
  /\ records[last.c] = cache[last.c].records
  /\ records[last.c] # << >>
  /\ departments[last.c] = INITIAL_DEPARTMENTS

\* ---------------------------------------------------------------- scoring
\* scores are kept in units of 1 / ScoreScale chapters per head
MaxRecs == 2           \* records in a scored collection
MaxLedger == 2         \* entries in a scored population ledger

DAILY_CAP == 4
DEFAULT_POPULATION == 10
ScoreScale == 2 * DEFAULT_POPULATION

Min(a, b) == IF a < b THEN a ELSE b

\* r.date.split('T')[0]: the date part of the ISO string
UtcDatePart(t) == t \div DAY_MS

\* insertion of an entry behind the entries that start no earlier
RECURSIVE InsertByStartDesc(_, _)
InsertByStartDesc(s, e) ==
  IF s = << >> THEN << e >>
  ELSE IF Head(s).startDate >= e.startDate
       THEN << Head(s) >> \o InsertByStartDesc(Tail(s), e)
       ELSE << e >> \o s

\* [...popHistory].sort((a, b) => time(b.startDate) - time(a.startDate))
RECURSIVE SortByStartDesc(_)
SortByStartDesc(s) ==
  IF s = << >> THEN << >>
  ELSE InsertByStartDesc(SortByStartDesc(SubSeq(s, 1, Len(s) - 1)), s[Len(s)])

\* log.populations[deptId]; 0 stands for a missing value
PopulationOf(log, dept) ==
  IF dept \in DOMAIN log.populations THEN log.populations[dept] ELSE 0

\* the lookup taking the entry in front of the ledger as it is stored
GetPopulationUnsorted(hist, t, dept) ==
  IF hist = << >> THEN DEFAULT_POPULATION
  ELSE IF PopulationOf(hist[1], dept) = 0 THEN 1
       ELSE PopulationOf(hist[1], dept)

\* getPopulationAtDate(dateStr, deptId)
getPopulationAtDate(hist, t, dept) ==
  LET sortedHistory == SortByStartDesc(hist)
      found == {k \in 1..Len(sortedHistory) : sortedHistory[k].startDate <= t}
  IN IF found = {}
     THEN IF Len(sortedHistory) > 0
          THEN PopulationOf(sortedHistory[Len(sortedHistory)], dept)
          ELSE DEFAULT_POPULATION
     ELSE LET k == CHOOSE k \in found : \A j \in found : k <= j
          IN IF PopulationOf(sortedHistory[k], dept) = 0 THEN 1
             ELSE PopulationOf(sortedHistory[k], dept)

\* the number a division by a missing population yields: not a number
NaN == 0 - 1

\* chapters / pop; pop is 0 where populations[deptId] is undefined
PerCapita(chapters, pop) ==
  IF pop = 0 THEN NaN ELSE (chapters * ScoreScale) \div pop

\* a += b of two scores: a sum with a NaN term is NaN
Plus(a, b) == IF a = NaN \/ b = NaN THEN NaN ELSE a + b

\* the key of normalGroup / normalUserDateSum: `${r.userId}_${dateKey}`
GroupKey(r) == << r.userId, UtcDatePart(r.date) >>

\* the positions of the non-admin records of a department with the key
GroupMembers(recs, dept, key) ==
  {k \in 1..Len(recs) : /\ recs[k].departmentId = dept
                         /\ ~recs[k].isAdminRecord
                         /\ GroupKey(recs[k]) = key}

\* the positions of the admin records of a department
AdminMembers(recs, dept) ==
  {k \in 1..Len(recs) : recs[k].departmentId = dept /\ recs[k].isAdminRecord}

NormalKeys(recs, dept) ==
  {GroupKey(recs[k]) :
     k \in {j \in 1..Len(recs) : /\ recs[j].departmentId = dept
                                  /\ ~recs[j].isAdminRecord}}

RECURSIVE SumChapters(_, _)
SumChapters(recs, ks) ==
  IF ks = {} THEN 0
  ELSE LET k == CHOOSE k \in ks : TRUE
       IN recs[k].chapters + SumChapters(recs, ks \ {k})

\* the entry of a group: the date of its first record, the chapters summed
GroupEntry(recs, dept, key) ==
  LET ks == GroupMembers(recs, dept, key)
      first == CHOOSE k \in ks : \A j \in ks : k <= j
  IN [date |-> recs[first].date, chapters |-> SumChapters(recs, ks)]

\* a group counted with all its chapters
Uncapped(chapters) == chapters

\* Math.min(item.chapters, 4)
CappedChapters(chapters) == Min(chapters, DAILY_CAP)

\* an admin record held to the daily cap
AdminChaptersCapped(r) == Min(r.chapters, DAILY_CAP)

\* the chapters an admin record is counted with
AdminChapters(r) == r.chapters

\* a contribution in total mode (chapters) or average mode (per head)
Contribution(chapters, pop, average) ==
  IF average THEN PerCapita(chapters, pop) ELSE chapters

\* the capped groups of the non-admin records of a department, summed
RECURSIVE NormalTotal(_, _, _, _, _)
NormalTotal(recs, hist, dept, keys, average) ==
  IF keys = {} THEN 0
  ELSE LET key == CHOOSE k \in keys : TRUE
           entry == GroupEntry(recs, dept, key)
       IN Plus(Contribution(CappedChapters(entry.chapters),
                            getPopulationAtDate(hist, entry.date, dept),
                            average),
               NormalTotal(recs, hist, dept, keys \ {key}, average))

\* the admin records of a department, summed one by one
RECURSIVE AdminTotal(_, _, _, _, _)
AdminTotal(recs, hist, dept, ks, average) ==
  IF ks = {} THEN 0
  ELSE LET k == CHOOSE k \in ks : TRUE
       IN Plus(Contribution(AdminChapters(recs[k]),
                            getPopulationAtDate(hist, recs[k].date, dept),
                            average),
               AdminTotal(recs, hist, dept, ks \ {k}, average))

\* the score of a department over a record collection: processedScores of
\* chartData summed in total or average mode over the records it is given,
\* scores[dept.id] of RaceTrack in average mode
ScoreOf(recs, hist, dept, average) ==
  Plus(NormalTotal(recs, hist, dept, NormalKeys(recs, dept), average),
       AdminTotal(recs, hist, dept, AdminMembers(recs, dept), average))

\* the competition window as civil days; days are counted from the first
\* day of the window, '2026-02-08', and '2026-12-31' is 326 days later
RACE_START_DATE == 0
RACE_END_DATE == 326

\* filteredRecords of Statistics: the records whose KST day is in the window
filteredRecords(recs) ==
  SelectSeq(recs, LAMBDA r : /\ formatKSTDate(r.date) >= RACE_START_DATE
                             /\ formatKSTDate(r.date) <= RACE_END_DATE)

\* the offsets from UTC of the timezones a viewer's browser runs in:
\* Asia/Seoul and America/New_York
ViewerZones == {KST_OFFSET_MS, 0 - 5 * 3600000}

\* the day of the daily chart key `${date.getMonth() + 1}/${date.getDate()}`
\* of new Date(record.date) in the viewer's timezone
LocalDate(t, zone) == (t + zone) \div DAY_MS

\* the daily chart buckets the processedScores of a department fall into
ChartDays(recs, dept, zone) ==
  {LocalDate(recs[k].date, zone) : k \in AdminMembers(recs, dept)}
    \cup {LocalDate(GroupEntry(recs, dept, key).date, zone) :
            key \in NormalKeys(recs, dept)}

\* RaceTrack and Statistics are rendered from the working state by a
\* browser in some timezone: total is the sum of the chart of Statistics in
\* total mode, days are the daily buckets of that chart, average is
\* scores[dept.id] of RaceTrack
RenderScores(c) ==
  /\ mounted[c]
  /\ ~isLoading[c]
  /\ \E zone \in ViewerZones :
       board' = [board EXCEPT ![c] =
         [d \in Depts |->
            [total |-> ScoreOf(filteredRecords(records[c]), popHistory[c], d, FALSE),
             days |-> ChartDays(filteredRecords(records[c]), d, zone),
             buckets |-> {},
             average |-> ScoreOf(records[c], popHistory[c], d, TRUE)]]]
  /\ last' = Step("render", c, NoArgs, FALSE, 0, 0, FALSE, "")
  /\ UNCHANGED << tabs, restored, backup, isLoading, now, nextId, ops, remote, dataVars,
                  cacheVars, uiVars, histVars, isSyncing, isFetching,
                  lastSaveTime, procs >>

\* the record collections and ledgers that are scored
ScoreUsers == {"u1", "u2"}

ScoreShapes ==
  {[id |-> 0, departmentId |-> d, userId |-> u, userName |-> u,
    chapters |-> ch, date |-> UtcDate(day), isAdminRecord |-> FALSE] :
     d \in Depts, u \in ScoreUsers, ch \in {3, 4}, day \in Days}
  \cup
  {[id |-> 0, departmentId |-> d, userId |-> "admin", userName |-> "ADMIN",
    chapters |-> ch, date |-> UtcDate(day), isAdminRecord |-> TRUE] :
     d \in Depts, ch \in {3, 50}, day \in Days}

\* record lists; the id of a record is its position
ScoreLists ==
  UNION {{[k \in 1..n |-> [f[k] EXCEPT !.id = k]] : f \in [1..n -> ScoreShapes]} :
           n \in 0..MaxRecs}

\* ledger entries start at midnight UTC of a day
LedgerEntries ==
  {[startDate |-> day * DAY_MS, populations |-> [d \in Depts |-> p]] :
     day \in Days, p \in {DEFAULT_POPULATION, 2 * DEFAULT_POPULATION}}

Ledgers == UNION {[1..n -> LedgerEntries] : n \in 0..MaxLedger}

\* one browser whose cache holds a stored document with records and ledger
InitScore ==
  /\ tabs = {"c1"}
  /\ Fresh
  /\ ~backup.up
  /\ remote \in {Doc(recs, hist, << >>, INITIAL_DEPARTMENTS) :
                   recs \in ScoreLists, hist \in Ledgers}
  /\ cache = [c \in Clients |-> IF c \in tabs THEN remote ELSE EmptyDoc]
  /\ hasCache = [c \in Clients |-> c \in tabs]
  /\ userProfile = [c \in Clients |-> Profile(c)]

NextScore ==
  \/ \E c \in Clients : Mount(c)
  \/ \E c \in Clients : RenderScores(c)

SpecScore == InitScore /\ [][NextScore]_vars

\* the list without the records at the positions ks
RECURSIVE WithoutPositions(_, _)
WithoutPositions(s, ks) ==
  IF s = << >> THEN << >>
  ELSE LET front == WithoutPositions(SubSeq(s, 1, Len(s) - 1), ks)
       IN IF Len(s) \in ks THEN front ELSE Append(front, s[Len(s)])

\* C18: in the rendered scores, the non-admin records of one user on one
\* day in a department together add min(sum of their chapters, 4) to the
\* department's total, and that value divided by the population to its
\* average; the day is the date part of the record's ISO timestamp
C18_DailyCapPerUserDay ==
  last.op = "render" =>
    LET recs == records[last.c]
        hist == popHistory[last.c]
    IN \A d \in Depts : \A key \in NormalKeys(recs, d) :
         LET ks == GroupMembers(recs, d, key)
             first == CHOOSE k \in ks : \A j \in ks : k <= j
             sum == SumChapters(recs, ks)
             capped == IF sum < DAILY_CAP THEN sum ELSE DAILY_CAP
             rest == WithoutPositions(recs, ks)
         IN /\ board[last.c][d].total
                 = ScoreOf(rest, hist, d, FALSE) + capped
            /\ board[last.c][d].average
                 = ScoreOf(rest, hist, d, TRUE)
                   + PerCapita(capped,
                               getPopulationAtDate(hist, recs[first].date, d))

\* two records of one user on one day totalling 7 are the only records of
\* a department, whose rendered total is 4
C18_Witness ==
  /\ last.op = "render"
  /\ \E d \in Depts :
       /\ Len(records[last.c]) = 2
       /\ GroupMembers(records[last.c], d, GroupKey(records[last.c][1])) = {1, 2}
       /\ SumChapters(records[last.c], {1, 2}) = 7
       /\ board[last.c][d].total = 4

\* C19: in the rendered scores every admin record adds its full chapters
\* to its department's total, and its chapters divided by the population at
\* its date to the average, whatever other records there are
C19_AdminRecordsUncapped ==
  last.op = "render" =>
    LET recs == records[last.c]
        hist == popHistory[last.c]
    IN \A d \in Depts : \A k \in AdminMembers(recs, d) :
         LET rest == WithoutPositions(recs, {k})
         IN /\ board[last.c][d].total
                 = ScoreOf(rest, hist, d, FALSE) + recs[k].chapters
            /\ board[last.c][d].average
                 = ScoreOf(rest, hist, d, TRUE)
                   + PerCapita(recs[k].chapters,
                               getPopulationAtDate(hist, recs[k].date, d))

\* two admin records of 50 chapters for one department and day: the
\* rendered total is 100
C19_Witness ==
  /\ last.op = "render"
  /\ \E d \in Depts :
       /\ AdminMembers(records[last.c], d) = {1, 2}
       /\ records[last.c][1].date = records[last.c][2].date
       /\ records[last.c][1].chapters = 50
       /\ records[last.c][2].chapters = 50
       /\ board[last.c][d].total = 100

\* the entries of a ledger that start latest among those starting at or
\* before t
LatestNotAfter(hist, t) ==
  {j \in 1..Len(hist) :
     /\ hist[j].startDate <= t
     /\ \A i \in 1..Len(hist) :
          hist[i].startDate <= t => hist[i].startDate <= hist[j].startDate}

\* C20: the average an admin record, or the capped group of a user and
\* day, adds to the rendered score of its department is its chapters
\* divided by the population of the ledger entry that starts latest among
\* the entries starting at or before the record's date, in whatever order
\* the ledger holds its entries
C20_PopulationAtRecordDate ==
  last.op = "render" =>
    LET recs == records[last.c]
        hist == popHistory[last.c]
    IN \A d \in Depts :
         /\ \A k \in AdminMembers(recs, d) :
              LatestNotAfter(hist, recs[k].date) # {}
              => \E j \in LatestNotAfter(hist, recs[k].date) :
                   board[last.c][d].average
                     = ScoreOf(WithoutPositions(recs, {k}), hist, d, TRUE)
                       + (recs[k].chapters * ScoreScale)
                           \div hist[j].populations[d]
         /\ \A key \in NormalKeys(recs, d) :
              LET ks == GroupMembers(recs, d, key)
                  first == CHOOSE k \in ks : \A j \in ks : k <= j
                  sum == SumChapters(recs, ks)
              IN LatestNotAfter(hist, recs[first].date) # {}
                 => \E j \in LatestNotAfter(hist, recs[first].date) :
                      board[last.c][d].average
                        = ScoreOf(WithoutPositions(recs, ks), hist, d, TRUE)
                          + (Min(sum, DAILY_CAP) * ScoreScale)
                              \div hist[j].populations[d]

\* a ledger holding the entry of day 1 (20) in front of the entry of day 0
\* (10) and admin records of both days were rendered: 50 / 10 + 50 / 20
C20_Witness ==
  /\ last.op = "render"
  /\ Len(popHistory[last.c]) = 2
  /\ popHistory[last.c][1].startDate > popHistory[last.c][2].startDate
  /\ \E d \in Depts :
       /\ popHistory[last.c][1].populations[d] = 20
       /\ popHistory[last.c][2].populations[d] = 10
       /\ AdminMembers(records[last.c], d) = {1, 2}
       /\ records[last.c][1].chapters = 50
       /\ records[last.c][2].chapters = 50
       /\ records[last.c][1].date >= popHistory[last.c][1].startDate
       /\ records[last.c][2].date < popHistory[last.c][1].startDate
       /\ records[last.c][2].date >= popHistory[last.c][2].startDate
       /\ board[last.c][d].average = 50 * (ScoreScale \div 20)
                                      + 50 * (ScoreScale \div 10)

\* ------------------------------------------------- ledgers with missing keys
\* ledger entries whose populations object holds a subset of the departments
\* (an entry written before a department was added)
PartialEntries ==
  {[startDate |-> day * DAY_MS, populations |-> [d \in ds |-> DEFAULT_POPULATION]] :
     day \in Days, ds \in SUBSET Depts}

PartialLedgers == UNION {[1..n -> PartialEntries] : n \in 0..MaxLedger}

\* one browser whose cache holds a stored document with such a ledger
InitLedger ==
  /\ tabs = {"c1"}
  /\ Fresh
  /\ ~backup.up
  /\ remote \in {Doc(recs, hist, << >>, INITIAL_DEPARTMENTS) :
                   recs \in {l \in ScoreLists : Len(l) <= 1},
                   hist \in PartialLedgers}
  /\ cache = [c \in Clients |-> IF c \in tabs THEN remote ELSE EmptyDoc]
  /\ hasCache = [c \in Clients |-> c \in tabs]
  /\ userProfile = [c \in Clients |-> Profile(c)]

SpecLedger == InitLedger /\ [][NextScore]_vars

\* C21: in a rendering, the population looked up for every department at
\* the date of every record is a positive number, and no department's
\* average is the result of a division by a missing value
C21_PopulationAlwaysPositive ==
  last.op = "render" =>
    \A d \in Depts :
      /\ \A k \in 1..Len(records[last.c]) :
           getPopulationAtDate(popHistory[last.c], records[last.c][k].date, d) > 0
      /\ board[last.c][d].average # NaN

\* ------------------------------------------------------ competition window
\* records as ScoreShapes holds them, with the given timestamps
ShapesAt(dates) ==
  {[id |-> 0, departmentId |-> d, userId |-> u, userName |-> u,
    chapters |-> ch, date |-> t, isAdminRecord |-> FALSE] :
     d \in Depts, u \in ScoreUsers, ch \in {3, 4}, t \in dates}
  \cup
  {[id |-> 0, departmentId |-> d, userId |-> "admin", userName |-> "ADMIN",
    chapters |-> ch, date |-> t, isAdminRecord |-> TRUE] :
     d \in Depts, ch \in {3, 50}, t \in dates}

\* the record lists over a set of shapes; the id of a record is its position
ListsOf(shapes) ==
  UNION {{[k \in 1..n |-> [f[k] EXCEPT !.id = k]] : f \in [1..n -> shapes]} :
           n \in 0..MaxRecs}

\* one browser whose cache holds records of the day before the window opens
\* and of the days of the window, with the default ledger
InitWindow ==
  /\ tabs = {"c1"}
  /\ Fresh
  /\ ~backup.up
  /\ remote \in {Doc(recs, InitialPopHistory, << >>, INITIAL_DEPARTMENTS) :
                   recs \in ListsOf(ShapesAt({UtcDate(day) :
                                                day \in (0 - 1)..MaxDay}))}
  /\ cache = [c \in Clients |-> IF c \in tabs THEN remote ELSE EmptyDoc]
  /\ hasCache = [c \in Clients |-> c \in tabs]
  /\ userProfile = [c \in Clients |-> Profile(c)]

SpecWindow == InitWindow /\ [][NextScore]_vars

\* C22: in a rendering, every department's total and every department's
\* race-track score are what the records of the competition window alone
\* give: a record whose KST day is outside the window adds nothing
C22_OutOfWindowAddsNothing ==
  last.op = "render" =>
    \A d \in Depts :
      /\ board[last.c][d].total
           = ScoreOf(filteredRecords(records[last.c]), popHistory[last.c], d, FALSE)
      /\ board[last.c][d].average
           = ScoreOf(filteredRecords(records[last.c]), popHistory[last.c], d, TRUE)

\* --------------------------------------------------------- one civil day
\* C23: every record of a rendering has one civil day, its KST day: the
\* day of the scoring group is that day, and the daily buckets of the
\* statistics chart of every department are the KST days of the records of
\* the window it holds, in whatever timezone the viewer's browser runs
C23_OneCivilDayEverywhere ==
  last.op = "render" =>
    LET recs == records[last.c]
    IN /\ \A k \in 1..Len(recs) :
            UtcDatePart(recs[k].date) = formatKSTDate(recs[k].date)
       /\ \A d \in Depts :
            board[last.c][d].days
              = {formatKSTDate(filteredRecords(recs)[k].date) :
                   k \in {j \in 1..Len(filteredRecords(recs)) :
                            filteredRecords(recs)[j].departmentId = d}}

\* ------------------------------------------- profile and admin settings
\* the names typed into the name field of the profile form
NameInputs == {"", "u1", "kim"}

\* otherEntries of handleApplyPopulations: the entries whose KST day is not
\* the day populations are applied for
RECURSIVE OtherEntries(_, _)
OtherEntries(hist, day) ==
  IF hist = << >> THEN << >>
  ELSE IF formatKSTDate(Head(hist).startDate) # day
       THEN << Head(hist) >> \o OtherEntries(Tail(hist), day)
       ELSE OtherEntries(Tail(hist), day)

\* the new entry put into the ledger with no entry taken out
NextHistoryAppending(hist, day, pops) ==
  SortByStart(hist \o << [startDate |-> day * DAY_MS, populations |-> pops] >>)

\* nextHistory of handleApplyPopulations; new Date('YYYY-MM-DD') is
\* midnight UTC of the day
NextHistory(hist, day, pops) ==
  SortByStart(OtherEntries(hist, day)
                \o << [startDate |-> day * DAY_MS, populations |-> pops] >>)

\* handleApplyPopulations up to the await of saveData; tempPopulations holds
\* a value for every department of the working state
HandleApplyPopulations(c, day, p) ==
  /\ mounted[c]
  /\ ~isLoading[c]
  /\ isAdminMode[c]
  /\ Len(procs[c]) < MaxProcs
  /\ SaveData(c, records[c],
              NextHistory(popHistory[c], day,
                          [d \in Ids(departments[c]) |-> p]),
              allUsers[c], departments[c], procs[c])
  /\ ops < MaxOps
  /\ ops' = ops + 1
  /\ last' = Step("applyPopulations", c, [NoArgs EXCEPT !.day = day],
                  FALSE, 0, 0, FALSE, "")
  /\ restored' = [restored EXCEPT ![c] = FALSE]
  /\ UNCHANGED << tabs, board, backup, isLoading, now, nextId, remote, uiVars,
                  histVars, isFetching >>

\* otherUsers of handleSelectDepartment
RECURSIVE OtherUsers(_, _)
OtherUsers(usrs, uid) ==
  IF usrs = << >> THEN << >>
  ELSE IF Head(usrs).uid # uid
       THEN << Head(usrs) >> \o OtherUsers(Tail(usrs), uid)
       ELSE OtherUsers(Tail(usrs), uid)

\* a profile save that appends to the list as it stands
NextAllUsersAppending(usrs, newProfile) == usrs \o << newProfile >>

\* nextAllUsers of handleSelectDepartment
NextAllUsers(usrs, newProfile) ==
  OtherUsers(usrs, newProfile.uid) \o << newProfile >>

\* a profile save that carries the new department and name into the
\* records of the user
RecordsFollowingProfile(recs, profile) ==
  [k \in 1..Len(recs) |->
     IF recs[k].userId = profile.uid
     THEN [recs[k] EXCEPT !.departmentId = profile.departmentId,
                          !.userName = profile.displayName]
     ELSE recs[k]]

\* the records handleSelectDepartment hands to saveData
RecordsOfProfileSave(recs, profile) == recs

\* handleSelectDepartment(deptId) with the name typed into the form, up to
\* the await of saveData
HandleSelectDepartment(c, name, dept) ==
  /\ mounted[c]
  /\ ~isLoading[c]
  /\ dept \in Ids(departments[c])
  /\ Len(procs[c]) < MaxProcs
  /\ ops < MaxOps
  /\ ops' = ops + 1
  /\ IF name = ""
     THEN /\ last' = Step("selectDepartment", c, NoArgs, FALSE, 0, 0, FALSE,
                          "enter a name")
          /\ UNCHANGED << dataVars, cacheVars, userProfile, isSyncing,
                          lastSaveTime, procs >>
     ELSE LET newProfile == [uid |-> Uid(c), displayName |-> name,
                             departmentId |-> dept]
          IN /\ userProfile' = [userProfile EXCEPT ![c] = newProfile]
             /\ SaveData(c, RecordsOfProfileSave(records[c], newProfile),
                         popHistory[c],
                         NextAllUsers(allUsers[c], newProfile),
                         departments[c], procs[c])
             /\ last' = Step("selectDepartment", c,
                             [NoArgs EXCEPT !.dept = dept],
                             FALSE, 0, 0, FALSE, "")
  /\ restored' = [restored EXCEPT ![c] = IF name = "" THEN @ ELSE FALSE]
  /\ UNCHANGED << tabs, board, backup, isLoading, now, nextId, remote, isAdminMode,
                  mounted, hidden, histVars, isFetching >>

\* a deletion that takes the records of the department with it
RecordsOutsideDepartment(recs, id) ==
  SelectSeq(recs, LAMBDA r : r.departmentId # id)

\* the records handleDeleteDepartment hands to saveData
RecordsOfDepartmentDelete(recs, id) == recs

\* handleDeleteDepartment(id), confirmed, up to the await of saveData
HandleDeleteDepartment(c, id) ==
  /\ mounted[c]
  /\ ~isLoading[c]
  /\ isAdminMode[c]
  /\ id \in Ids(departments[c])
  /\ Len(procs[c]) < MaxProcs
  /\ SaveData(c, RecordsOfDepartmentDelete(records[c], id), popHistory[c],
              allUsers[c], FilterOutId(departments[c], id), procs[c])
  /\ ops < MaxOps
  /\ ops' = ops + 1
  /\ last' = Step("deleteDepartment", c, [NoArgs EXCEPT !.dept = id],
                  FALSE, 0, 0, FALSE, "")
  /\ restored' = [restored EXCEPT ![c] = FALSE]
  /\ UNCHANGED << tabs, board, backup, isLoading, now, nextId, remote, uiVars,
                  histVars, isFetching >>

\* one browser whose cache holds the stored document: at most one record,
\* the default ledger and the profile of the user
InitAdmin ==
  /\ tabs = {"c1"}
  /\ Fresh
  /\ ~backup.up
  /\ remote \in {Doc(recs, InitialPopHistory, << Profile("c1") >>,
                      INITIAL_DEPARTMENTS) :
                   recs \in {l \in ScoreLists : Len(l) <= 1}}
  /\ cache = [c \in Clients |-> IF c \in tabs THEN remote ELSE EmptyDoc]
  /\ hasCache = [c \in Clients |-> c \in tabs]
  /\ userProfile = [c \in Clients |-> Profile(c)]

\* the profile form and the admin panel; the clock stands still
NextAdmin ==
  \/ \E c \in Clients : Mount(c)
  \/ LoadSteps
  \/ PushSteps
  \/ \E c \in Clients : \E pw \in {"djcjbch", "guess"} : HandleAdminLogin(c, pw)
  \/ \E c \in Clients : \E day \in Days :
       \E p \in {DEFAULT_POPULATION, 2 * DEFAULT_POPULATION} :
         HandleApplyPopulations(c, day, p)
  \/ \E c \in Clients : \E name \in NameInputs : \E dept \in Depts :
       HandleSelectDepartment(c, name, dept)
  \/ \E c \in Clients : \E id \in Depts : HandleDeleteDepartment(c, id)

SpecAdmin == InitAdmin /\ [][NextAdmin]_vars

\* a ledger with at most one entry per KST day, ascending by startDate
OnePerDayAscending(hist) ==
  \A i, j \in 1..Len(hist) :
    i < j => /\ hist[i].startDate <= hist[j].startDate
             /\ formatKSTDate(hist[i].startDate) # formatKSTDate(hist[j].startDate)

\* C24: the ledger of every browser, of its cache and of the store always
\* holds at most one entry per civil day in ascending order; applying
\* populations for a day leaves exactly one entry of that day, the new one,
\* and the entries of the other days are the ones there were; the same
\* ledger is cached and pushed
C24_ApplyPopulationsOnePerDay ==
  /\ [](/\ OnePerDayAscending(remote.popHistory)
         /\ \A c \in tabs : /\ OnePerDayAscending(popHistory[c])
                             /\ OnePerDayAscending(cache[c].popHistory))
  /\ [][\A c \in Clients : \A day \in Days :
          \A p \in {DEFAULT_POPULATION, 2 * DEFAULT_POPULATION} :
            HandleApplyPopulations(c, day, p)
            => LET old == popHistory[c]
                   new == popHistory'[c]
                   ofDay == {k \in 1..Len(new) :
                               formatKSTDate(new[k].startDate) = day}
               IN /\ Cardinality(ofDay) = 1
                  /\ \A k \in ofDay :
                       new[k] = [startDate |-> day * DAY_MS,
                                 populations |->
                                   [d \in Ids(departments[c]) |-> p]]
                  /\ Len(new) = Cardinality({k \in 1..Len(old) :
                         formatKSTDate(old[k].startDate) # day}) + 1
                  /\ \A k \in 1..Len(old) :
                       formatKSTDate(old[k].startDate) # day
                       => old[k] \in Range(new)
                  /\ cache'[c].popHistory = new
                  /\ procs'[c][Len(procs'[c])].data.popHistory = new]_vars

\* populations were applied for a day whose entry the store still holds
\* with other numbers, next to an entry of another day
C24_Witness ==
  /\ last.op = "applyPopulations"
  /\ Len(popHistory[last.c]) = 2
  /\ Len(remote.popHistory) = 2
  /\ \E k \in 1..2 :
       /\ formatKSTDate(popHistory[last.c][k].startDate) = last.a.day
       /\ remote.popHistory[k].startDate = popHistory[last.c][k].startDate
       /\ remote.popHistory[k].populations # popHistory[last.c][k].populations
       /\ remote.popHistory[3 - k] = popHistory[last.c][3 - k]

\* C25: a profile save with a name leaves every record as it was, in the
\* working state, in the cache and in the pushed document, so the score of
\* every department computed from them is the one computed before
C25_ProfileSaveKeepsRecords ==
  [][\A c \in Clients : \A name \in NameInputs : \A dept \in Depts :
       HandleSelectDepartment(c, name, dept)
       => /\ records'[c] = records[c]
          /\ cache'[c].records = records[c]
          /\ name # ""
             => procs'[c][Len(procs'[c])].data.records = records[c]
          /\ \A d \in Depts : \A average \in BOOLEAN :
               ScoreOf(records'[c], popHistory'[c], d, average)
                 = ScoreOf(records[c], popHistory[c], d, average)]_vars

\* a user saved a profile with another department and another name than
\* the ones a record of theirs carries
C25_Witness ==
  /\ last.op = "selectDepartment"
  /\ last.alert = ""
  /\ \E k \in 1..Len(records[last.c]) :
       /\ records[last.c][k].userId = userProfile[last.c].uid
       /\ records[last.c][k].departmentId # userProfile[last.c].departmentId
       /\ records[last.c][k].userName # userProfile[last.c].displayName

\* C26: deleting a department takes that department, and nothing else, out
\* of the department list; records, ledger and users stay as they were in
\* the working state, in the cache and in the pushed document
C26_DepartmentDeleteKeepsRest ==
  [][\A c \in Clients : \A id \in Depts :
       HandleDeleteDepartment(c, id)
       => LET pushed == procs'[c][Len(procs'[c])].data
          IN /\ records'[c] = records[c]
             /\ popHistory'[c] = popHistory[c]
             /\ allUsers'[c] = allUsers[c]
             /\ Ids(departments'[c]) = Ids(departments[c]) \ {id}
             /\ \A dep \in Range(departments'[c]) : dep \in Range(departments[c])
             /\ cache'[c] = Doc(records[c], popHistory[c], allUsers[c],
                                departments'[c])
             /\ pushed = cache'[c]]_vars

\* a department with a record, a ledger entry and a member was deleted
C26_Witness ==
  /\ last.op = "deleteDepartment"
  /\ last.a.dept \notin Ids(departments[last.c])
  /\ \E r \in Range(records[last.c]) : r.departmentId = last.a.dept
  /\ \E u \in Range(allUsers[last.c]) : u.departmentId = last.a.dept
  /\ \E e \in Range(popHistory[last.c]) : last.a.dept \in DOMAIN e.populations

\* ------------------------------------------- submissions and profile saves
\* a user who submits days and changes name and department in between; the
\* clock stands still
NextProfile ==
  \/ \E c \in Clients : Mount(c)
  \/ LoadSteps
  \/ DailySteps
  \/ PushSteps
  \/ \E c \in Clients : \E name \in NameInputs : \E dept \in Depts :
       HandleSelectDepartment(c, name, dept)

SpecProfile == Init /\ [][NextProfile]_vars

\* C27: a submission with chapters > 0 that finds a record of its key
\* leaves a list of the same length in which the record found, at its
\* position, differs from the old one in chapters and userName at most, and
\* every other position holds the record it held; that list is stored,
\* cached and pushed, and no id is drawn
C27_ResubmissionRewritesInPlace ==
  [][\A c \in Clients : \A i \in 1..MaxProcs : \A ok \in BOOLEAN :
       (/\ DailyCompute(c, i, ok)
        /\ procs[c][i].a.chapters > 0
        /\ last'.idx > 0)
       => LET p == procs[c][i]
              latest == LatestRecords(ok, remote, p.data.records)
              out == records'[c]
              k == last'.idx
          IN /\ Len(out) = Len(latest)
             /\ \A j \in 1..Len(latest) : j # k => out[j] = latest[j]
             /\ out[k].id = latest[k].id
             /\ out[k].date = latest[k].date
             /\ out[k].departmentId = latest[k].departmentId
             /\ out[k].userId = latest[k].userId
             /\ out[k].isAdminRecord = latest[k].isAdminRecord
             /\ out[k].chapters = p.a.chapters
             /\ out[k].userName = TargetUserName(p.a, p.profile)
             /\ cache'[c].records = out
             /\ procs'[c][Len(procs'[c])].data.records = out
             /\ nextId' = nextId]_vars

\* a user who changed name and department resubmitted a day with another
\* chapter count: the record carries the new count and the new name and
\* stays in the department it was written for
C27_Witness ==
  /\ last.op = "daily"
  /\ ~last.a.isAdmin
  /\ last.a.chapters > 0
  /\ last.idx > 0
  /\ last.was # last.a.chapters
  /\ records[last.c][last.idx].chapters = last.a.chapters
  /\ records[last.c][last.idx].userName = "kim"
  /\ records[last.c][last.idx].departmentId # userProfile[last.c].departmentId

\* C28: a submission with chapters > 0 that finds no record of its key puts
\* one record in front of the list: its id is held by no record of any
\* list, cache or stored document, the KST day of its timestamp is the day
\* submitted, and the same submission made on the new list finds it
C28_NewRecordFreshIdAndDay ==
  [][\A c \in Clients : \A i \in 1..MaxProcs : \A ok \in BOOLEAN :
       (/\ DailyCompute(c, i, ok)
        /\ procs[c][i].a.chapters > 0
        /\ last'.idx = 0)
       => LET p == procs[c][i]
              latest == LatestRecords(ok, remote, p.data.records)
              out == records'[c]
          IN /\ Len(out) = Len(latest) + 1
             /\ SubSeq(out, 2, Len(out)) = latest
             /\ out[1].id \notin Ids(latest) \cup Ids(remote.records)
             /\ \A c2 \in Clients :
                  /\ out[1].id \notin Ids(records[c2]) \cup Ids(cache[c2].records)
                  /\ \A doc \in PushedDocs(c2) : out[1].id \notin Ids(doc.records)
             /\ formatKSTDate(out[1].date) = p.a.day
             /\ FindIndex(out, p.a, TargetUserId(p.a, p.profile)) = 1]_vars

\* a second record was created, for day 1, in front of the record of day 0:
\* the two ids differ and each timestamp lies on its day
C28_Witness ==
  /\ last.op = "daily"
  /\ last.a.chapters > 0
  /\ last.idx = 0
  /\ last.a.day = 1
  /\ Len(records[last.c]) = 2
  /\ records[last.c][1].id # records[last.c][2].id
  /\ formatKSTDate(records[last.c][1].date) = 1
  /\ formatKSTDate(records[last.c][2].date) = 0

\* ------------------------------------------------------------ backup store
\* the backup store receives a PUT and keeps its document
BackupArrive(doc) ==
  /\ doc \in backup.puts
  /\ backup' = [backup EXCEPT !.doc = doc, !.puts = @ \ {doc}]
  /\ last' = NoStep
  /\ UNCHANGED << tabs, restored, board, isLoading, now, nextId, ops, remote, dataVars,
                  cacheVars, uiVars, histVars, isSyncing, isFetching,
                  lastSaveTime, procs >>

\* a PUT to the backup store is rejected: .catch(() => {})
BackupFail(doc) ==
  /\ doc \in backup.puts
  /\ backup' = [backup EXCEPT !.puts = @ \ {doc}]
  /\ last' = NoStep
  /\ UNCHANGED << tabs, restored, board, isLoading, now, nextId, ops, remote, dataVars,
                  cacheVars, uiVars, histVars, isSyncing, isFetching,
                  lastSaveTime, procs >>

\* one browser, and a backup store that can be reached
InitBackup ==
  /\ tabs = {"c1"}
  /\ Fresh
  /\ backup.up
  /\ cache = [c \in Clients |-> EmptyDoc]
  /\ hasCache = [c \in Clients |-> FALSE]
  /\ remote = Doc(<< >>, InitialPopHistory, << >>, INITIAL_DEPARTMENTS)
  /\ userProfile = [c \in Clients |-> Profile(c)]

\* submissions, their pushes and the backup PUTs; the clock stands still
NextBackup ==
  \/ \E c \in Clients : Mount(c)
  \/ LoadSteps
  \/ DailySteps
  \/ PushSteps
  \/ \E doc \in backup.puts : BackupArrive(doc)
  \/ \E doc \in backup.puts : BackupFail(doc)

SpecBackup == InitBackup /\ [][NextBackup]_vars

\* C29: a step that sends a POST to the primary store has put the posted
\* document into the working state and the cache; a PUT to the backup store
\* is sent only by the step in which a POST that the primary store received
\* resolves, with the document of that POST; and the arrival or rejection
\* of a PUT changes nothing but the backup store and raises no alert
C29_OptimisticThenPrimaryThenBackup ==
  [][/\ \A c \in Clients :
          PushCount(procs'[c]) > PushCount(procs[c])
          => /\ WorkingDoc(c)' = procs'[c][Len(procs'[c])].data
             /\ cache'[c] = procs'[c][Len(procs'[c])].data
             /\ hasCache'[c]
             /\ procs'[c][Len(procs'[c])].stage = "sent"
     /\ \A doc \in backup'.puts \ backup.puts :
          \E c \in Clients : \E i \in 1..Len(procs[c]) :
            /\ procs[c][i].kind = "push"
            /\ procs[c][i].stage = "arrived"
            /\ procs[c][i].data = doc
            /\ procs'[c] = RemoveAt(procs[c], i)
            /\ last'.alert = ""
     /\ (backup'.puts # backup.puts /\ backup'.puts \subseteq backup.puts)
          => /\ UNCHANGED << remote, dataVars, cacheVars, uiVars, isSyncing,
                             isLoading, isFetching, lastSaveTime, procs >>
             /\ last'.alert = ""]_vars

\* the backup store holds the document of a save whose POST resolved, while
\* the PUT of a later save is on its way
C29_Witness ==
  /\ backup.doc.records # << >>
  /\ backup.puts # {}
  /\ backup.doc \notin backup.puts
  /\ \A c \in tabs : ~isSyncing[c]

\* ------------------------------------------------------------ failed fetch
\* C30: a GET that is rejected, is not OK or has an empty body leaves the
\* working state, the cache and the stored document as they were, raises no
\* alert, takes its call out of flight and clears the fetch-in-flight flag
C30_FailedFetchChangesNothing ==
  [][\A c \in Clients : \A i \in 1..MaxProcs :
       LoadFail(c, i)
       => /\ UNCHANGED << dataVars, cacheVars, remote, lastSaveTime,
                          isSyncing >>
          /\ last'.alert = ""
          /\ ~isFetching'[c]
          /\ LoadCount(procs'[c]) = LoadCount(procs[c]) - 1]_vars

\* a background GET failed in a browser that holds fetched records in its
\* working state and cache; the flag is clear and nothing is in flight
C30_Witness ==
  /\ last.op = "load"
  /\ ~last.ok
  /\ mounted[last.c]
  /\ ~isLoading[last.c]
  /\ records[last.c] # << >>
  /\ cache[last.c].records = records[last.c]
  /\ ~isFetching[last.c]
  /\ procs[last.c] = << >>

\* ------------------------------------------------------- cache at mount
\* one browser whose localStorage holds an entry, a document with or
\* without its fields or a text that is no JSON, in front of a store with
\* one record
InitCache ==
  /\ tabs = {"c1"}
  /\ Fresh
  /\ ~backup.up
  /\ remote = Doc(<< NewRecord([chapters |-> 2, day |-> 1, dept |-> "",
                                isAdmin |-> FALSE], Profile("c1"), 2) >>,
                  InitialPopHistory, << >>, INITIAL_DEPARTMENTS)
  /\ cache \in {[c \in Clients |-> IF c \in tabs THEN d ELSE EmptyDoc] :
                  d \in IngestDocs \cup {Unparsable}}
  /\ hasCache = [c \in Clients |-> c \in tabs]
  /\ userProfile = [c \in Clients |-> Profile(c)]

SpecCache == InitCache /\ [][NextIngest]_vars

\* C31: mounting with a cache entry that does not parse leaves the working
\* state at its defaults, raises no alert, keeps the spinner and sends the
\* GET; mounting with an entry that parses puts every field the entry holds
\* into the working state in the step that sends the GET
C31_CacheAtMount ==
  [][\A c \in Clients :
       Mount(c)
       => /\ LoadCount(procs'[c]) = LoadCount(procs[c]) + 1
          /\ procs'[c][Len(procs'[c])].stage = "sent"
          /\ last'.alert = ""
          /\ (hasCache[c] /\ cache[c] = Unparsable)
               => /\ UNCHANGED dataVars
                  /\ records'[c] = << >>
                  /\ popHistory'[c] = InitialPopHistory
                  /\ departments'[c] = INITIAL_DEPARTMENTS
                  /\ isLoading'[c]
          /\ (hasCache[c] /\ cache[c] # Unparsable)
               => /\ "records" \in cache[c].has
                       => records'[c] = cache[c].records
                  /\ "popHistory" \in cache[c].has
                       => popHistory'[c] = cache[c].popHistory
                  /\ "users" \in cache[c].has
                       => allUsers'[c] = cache[c].users
                  /\ "departments" \in cache[c].has
                       => departments'[c] = cache[c].departments
                  /\ ~isLoading'[c]]_vars

\* a browser mounted on a cache entry that does not parse: defaults on
\* screen behind the spinner and the GET on its way
C31_Witness ==
  /\ mounted["c1"]
  /\ hasCache["c1"]
  /\ cache["c1"] = Unparsable
  /\ isLoading["c1"]
  /\ records["c1"] = << >>
  /\ LoadCount(procs["c1"]) = 1
  /\ procs["c1"][1].stage = "sent"
  /\ ~procs["c1"][1].silent

\* ------------------------------------------------ weekly and monthly chart
\* the days of 2026 before RACE_START_DATE, and getDay() of its 1 January
START_DAY_OF_YEAR == 38
FIRST_DAY_OF_YEAR_GET_DAY == 4

\* the days of 2026 before each month
DaysBeforeMonth == << 0, 31, 59, 90, 120, 151, 181, 212, 243, 273, 304, 334 >>

Periods == {"weekly", "monthly"}

\* date.getMonth() + 1 of a local day of 2026
MonthOf(localDay) ==
  CHOOSE m \in 1..12 :
    /\ DaysBeforeMonth[m] <= localDay + START_DAY_OF_YEAR
    /\ m < 12 => localDay + START_DAY_OF_YEAR < DaysBeforeMonth[m + 1]

\* Math.ceil((pastDaysOfYear + firstDayOfYear.getDay() + 1) / 7), the days
\* past with their fraction
WeekNum(t, zone) ==
  LET whole == START_DAY_OF_YEAR + FIRST_DAY_OF_YEAR_GET_DAY + 1
                 + LocalDate(t, zone)
  IN IF (t + zone) % DAY_MS = 0 /\ whole % 7 = 0
     THEN whole \div 7
     ELSE (whole \div 7) + 1

\* the key of the bucket of a date
BucketKey(t, period, zone) ==
  IF period = "weekly" THEN WeekNum(t, zone)
  ELSE MonthOf(LocalDate(t, zone))

\* representativeTimestamp as a local day: the Sunday of the week, the
\* first of the month
RepresentativeDay(t, period, zone) ==
  IF period = "weekly"
  THEN LocalDate(t, zone) - (LocalDate(t, zone) % 7)
  ELSE DaysBeforeMonth[MonthOf(LocalDate(t, zone))] - START_DAY_OF_YEAR

\* the positions of the non-admin records of a department that open a group
GroupFirsts(recs, dept) ==
  SelectSeq([k \in 1..Len(recs) |-> k],
            LAMBDA k : /\ recs[k].departmentId = dept
                       /\ ~recs[k].isAdminRecord
                       /\ \A j \in GroupMembers(recs, dept, GroupKey(recs[k])) :
                            k <= j)

\* processedScores of one department: its admin records as they are, then
\* the groups of normalGroup capped, in the order the groups were opened
DeptScores(recs, dept) ==
  LET admins == SelectSeq(recs, LAMBDA r : r.departmentId = dept
                                           /\ r.isAdminRecord)
      firsts == GroupFirsts(recs, dept)
  IN [i \in 1..Len(admins) |->
        [departmentId |-> dept, date |-> admins[i].date,
         scoreChapters |-> AdminChapters(admins[i])]]
     \o
     [i \in 1..Len(firsts) |->
        LET e == GroupEntry(recs, dept, GroupKey(recs[firsts[i]]))
        IN [departmentId |-> dept, date |-> e.date,
            scoreChapters |-> CappedChapters(e.chapters)]]

RECURSIVE ProcessedScores(_, _, _)
ProcessedScores(recs, depts, i) ==
  IF i > Len(depts) THEN << >>
  ELSE DeptScores(recs, depts[i].id) \o ProcessedScores(recs, depts, i + 1)

\* a bucket held to the daily cap as it grows
BucketAddCapped(value, contribution) == Min(value + contribution, DAILY_CAP)

\* data[key][record.departmentId] += ...
BucketAdd(value, contribution) == Plus(value, contribution)

\* processedScores.forEach: the bucket of the item is opened with 0 for
\* every department when it is new, and the item is added to it
RECURSIVE FoldScores(_, _, _, _, _, _, _)
FoldScores(items, i, data, hist, depts, period, zone) ==
  IF i > Len(items) THEN data
  ELSE
    LET item == items[i]
        key == BucketKey(item.date, period, zone)
        opened == IF \E k \in 1..Len(data) : data[k].label = key THEN data
                  ELSE Append(data,
                         [label |-> key,
                          timestamp |-> RepresentativeDay(item.date, period, zone),
                          values |-> [d \in {depts[j].id : j \in 1..Len(depts)}
                                        |-> 0]])
        at == CHOOSE k \in 1..Len(opened) : opened[k].label = key
        pop == getPopulationAtDate(hist, item.date, item.departmentId)
    IN FoldScores(items, i + 1,
         [opened EXCEPT ![at].values[item.departmentId] =
            BucketAdd(@, Contribution(item.scoreChapters, pop, FALSE))],
         hist, depts, period, zone)

\* limit of sorted.slice(-limit)
WEEKLY_LIMIT == 4
MONTHLY_LIMIT == 6

\* the buckets left by the sort on timestamp and slice(-limit)
Sliced(data, limit) ==
  {k \in 1..Len(data) :
     Cardinality({j \in 1..Len(data) :
                    \/ data[j].timestamp > data[k].timestamp
                    \/ data[j].timestamp = data[k].timestamp /\ j > k})
       < limit}

\* chartData in total mode: label and value of every bucket shown for a
\* department
ChartBuckets(recs, hist, depts, dept, period, zone) ==
  LET data == FoldScores(ProcessedScores(recs, depts, 1), 1, << >>, hist,
                         depts, period, zone)
      limit == IF period = "weekly" THEN WEEKLY_LIMIT ELSE MONTHLY_LIMIT
  IN {<< data[k].label, data[k].values[dept] >> :
        k \in {j \in Sliced(data, limit) : dept \in DOMAIN data[j].values}}

\* Statistics rendered with the period set to weekly or monthly
RenderChart(c, period) ==
  /\ mounted[c]
  /\ ~isLoading[c]
  /\ \E zone \in ViewerZones :
       /\ board' = [board EXCEPT ![c] =
            [d \in Depts |->
               [total |-> ScoreOf(filteredRecords(records[c]), popHistory[c], d, FALSE),
                days |-> {},
                buckets |-> ChartBuckets(filteredRecords(records[c]),
                                         popHistory[c], departments[c], d,
                                         period, zone),
                average |-> ScoreOf(records[c], popHistory[c], d, TRUE)]]]
       /\ last' = Step("chart", c,
                       [NoArgs EXCEPT !.dept = period, !.day = zone],
                       FALSE, 0, 0, FALSE, "")
  /\ UNCHANGED << tabs, restored, backup, isLoading, now, nextId, ops, remote, dataVars,
                  cacheVars, uiVars, histVars, isSyncing, isFetching,
                  lastSaveTime, procs >>

\* the days on either side of a week's end and of a month's end
ChartDates == {UtcDate(day) : day \in {5, 6, 20, 21}}

\* one browser whose cache holds records around the end of a week and of
\* a month
InitChart ==
  /\ tabs = {"c1"}
  /\ Fresh
  /\ ~backup.up
  /\ remote \in {Doc(recs, InitialPopHistory, << >>, INITIAL_DEPARTMENTS) :
                   recs \in ListsOf(ShapesAt(ChartDates))}
  /\ cache = [c \in Clients |-> IF c \in tabs THEN remote ELSE EmptyDoc]
  /\ hasCache = [c \in Clients |-> c \in tabs]
  /\ userProfile = [c \in Clients |-> Profile(c)]

NextChart ==
  \/ \E c \in Clients : Mount(c)
  \/ \E c \in Clients, period \in Periods : RenderChart(c, period)

SpecChart == InitChart /\ [][NextChart]_vars

\* the groups of a department whose first record falls into a bucket
KeysInBucket(recs, dept, key, period, zone) ==
  {g \in NormalKeys(recs, dept) :
     BucketKey(GroupEntry(recs, dept, g).date, period, zone) = key}

\* the admin records of a department that fall into a bucket
AdminsInBucket(recs, dept, key, period, zone) ==
  {k \in AdminMembers(recs, dept) :
     BucketKey(recs[k].date, period, zone) = key}

\* C32: in total mode every weekly or monthly bucket shown for a
\* department holds the sum of the per-user-per-day sums, each capped at 4,
\* and of the admin records, uncapped, that fall into the bucket; no cap is
\* applied to the bucket
C32_CapBeforeBucketing ==
  last.op = "chart"
  => LET recs == filteredRecords(records[last.c])
         hist == popHistory[last.c]
     IN \A d \in Depts : \A b \in board[last.c][d].buckets :
          b[2] = NormalTotal(recs, hist, d,
                             KeysInBucket(recs, d, b[1], last.a.dept,
                                          last.a.day), FALSE)
                 + AdminTotal(recs, hist, d,
                              AdminsInBucket(recs, d, b[1], last.a.dept,
                                             last.a.day), FALSE)

\* a week shown with 7 for a department: one user's 3 and 4 chapters of two
\* days of the week, each day under the cap, the week above it
C32_Witness ==
  /\ last.op = "chart"
  /\ last.a.dept = "weekly"
  /\ \E d \in Depts : \E b \in board[last.c][d].buckets :
       /\ b[2] = 7
       /\ Cardinality(board[last.c][d].buckets) = 1
       /\ \A k \in 1..Len(records[last.c]) :
            ~records[last.c][k].isAdminRecord
       /\ Len(records[last.c]) = 2
       /\ records[last.c][1].userId = records[last.c][2].userId

\* ------------------------------------------------------ one profile per uid
ProfilesOf(usrs, uid) == {k \in 1..Len(usrs) : usrs[k].uid = uid}

OneProfilePerUid(usrs) ==
  \A k \in 1..Len(usrs) : Cardinality(ProfilesOf(usrs, usrs[k].uid)) = 1

\* C33: no users list, in a browser or in the store, ever holds two
\* profiles of one uid, and a profile save leaves in the list, and in the
\* document it sends, exactly one profile of the user, with the name and
\* the department of that save
C33_OneProfilePerUid ==
  /\ [](/\ OneProfilePerUid(remote.users)
        /\ \A c \in Clients : OneProfilePerUid(allUsers[c]))
  /\ [][\A c \in Clients : \A name \in NameInputs \ {""} : \A dept \in Depts :
         HandleSelectDepartment(c, name, dept)
         => LET saved == [uid |-> Uid(c), displayName |-> name,
                          departmentId |-> dept]
                sent == procs'[c][Len(procs'[c])]
            IN /\ Cardinality(ProfilesOf(allUsers'[c], Uid(c))) = 1
               /\ \A k \in ProfilesOf(allUsers'[c], Uid(c)) :
                    allUsers'[c][k] = saved
               /\ sent.kind = "push"
               /\ sent.data.users = allUsers'[c]]_vars

\* a user who was in the list with one department has saved another: the
\* list holds the one profile, with the new department
C33_Witness ==
  /\ last.op = "selectDepartment"
  /\ last.alert = ""
  /\ last.a.dept = "DANIEL"
  /\ allUsers[last.c] = << [Profile("c1") EXCEPT !.departmentId = "DANIEL",
                                                !.displayName = "kim"] >>
  /\ remote.users = << Profile("c1") >>

\* ------------------------------------------- two users on one document
\* two browsers of two users in front of a store without records
InitShared ==
  /\ tabs = Clients
  /\ Blank
  /\ remote = Doc(<< >>, InitialPopHistory, << >>, INITIAL_DEPARTMENTS)
  /\ userProfile = [c \in Clients |-> Profile(c)]

SpecShared == InitShared /\ [][NextPair]_vars

\* C34: a POST that arrives replaces the whole stored document and leaves
\* in it everything that is not the target of the save: the records of
\* other users, the ledger, the users and the departments are as the store
\* held them just before the POST arrived
C34_SaveLeavesOthersChanges ==
  [][\A c \in Clients : \A i \in 1..MaxProcs :
       PushArrive(c, i)
       => /\ remote' = procs[c][i].data
          /\ \A r \in Range(remote.records) :
               r.userId # Uid(c) => r \in Range(remote'.records)
          /\ remote'.popHistory = remote.popHistory
          /\ remote'.users = remote.users
          /\ remote'.departments = remote.departments]_vars

\* ------------------------------------------------------------ convergence
\* time passes by a tick, seen from the clients: the cooldown tests read
\* Date.now() - lastSaveTimeRef.current only, and every stamp of a save is
\* a tick older
Elapse ==
  /\ \E c \in tabs : InCooldown(now, lastSaveTime[c])
  /\ lastSaveTime' = [c \in Clients |->
                        IF lastSaveTime[c] > TickMs
                        THEN lastSaveTime[c] - TickMs ELSE 0]
  /\ last' = NoStep
  /\ UNCHANGED << tabs, restored, board, backup, isLoading, now, nextId, ops, remote,
                  dataVars, cacheVars, uiVars, histVars, isSyncing,
                  isFetching, procs >>

\* a reading of the first day of the race, submitted for the user
SubmitToday(c, chapters) == SaveDailyRecord(c, chapters, 0, "")

\* the POST of a browser that is not one of the tabs arrives at the store:
\* the document that browser re-fetched, with a reading of its user
ForeignPost ==
  /\ ops < MaxOps
  /\ ops' = ops + 1
  /\ \A k \in 1..Len(remote.records) : remote.records[k].userId # Uid("c2")
  /\ nextId + IdsReserved < MaxId
  /\ nextId' = nextId + 1
  /\ remote' = StoreReplace(remote,
       [remote EXCEPT !.records =
          << NewRecord([chapters |-> 1, day |-> 0, dept |-> "",
                        isAdmin |-> FALSE], Profile("c2"), nextId + 1) >> \o @])
  /\ last' = NoStep
  /\ UNCHANGED << tabs, restored, board, backup, isLoading, now, dataVars, cacheVars,
                  uiVars, histVars, isSyncing, isFetching, lastSaveTime,
                  procs >>

\* a user who submits readings while the page stays visible and every GET
\* is answered, and another browser that writes to the store
NextLive ==
  \/ Elapse
  \/ ForeignPost
  \/ \E c \in Clients : Mount(c)
  \/ \E c \in Clients : TimerTick(c)
  \/ \E c \in Clients : \E i \in 1..MaxProcs : LoadServe(c, i)
  \/ \E c \in Clients : \E i \in 1..MaxProcs : LoadDeliver(c, i)
  \/ \E c \in Clients : \E ch \in ChapterInputs : SubmitToday(c, ch)
  \/ \E c \in Clients : \E i \in 1..MaxProcs : \E ok \in BOOLEAN :
       DailyCompute(c, i, ok)
  \/ \E c \in Clients : \E i \in 1..MaxProcs : DailyThrow(c, i)
  \/ PushSteps

\* the browser opens the page, the interval timer keeps firing, the clock
\* keeps running, and every call on the network is answered or rejected
FairLive ==
  /\ WF_vars(Elapse)
  /\ \A c \in Clients :
       /\ WF_vars(Mount(c))
       /\ WF_vars(TimerTick(c))
       /\ \A i \in 1..MaxProcs :
            /\ WF_vars(LoadServe(c, i))
            /\ WF_vars(LoadDeliver(c, i))
            /\ WF_vars(\E ok \in BOOLEAN : DailyCompute(c, i, ok))
            /\ WF_vars(PushArrive(c, i))
            /\ WF_vars(PushResolve(c, i) \/ PushReject(c, i))

SpecLive == Init /\ [][NextLive]_vars /\ FairLive

\* the working state of a client is the stored document
Synced(c) ==
  /\ records[c] = remote.records
  /\ popHistory[c] = remote.popHistory
  /\ allUsers[c] = remote.users
  /\ departments[c] = remote.departments

\* C35: once no client saves any more, with the pages visible and every
\* poll answered, the records, ledger, users and departments of every
\* client come to equal the stored document and stay equal
C35_EventuallySynced ==
  <>[](\A c \in tabs : ~isSyncing[c])
    => <>[](\A c \in tabs : Synced(c))

\* a poll has brought the record of the other user into a client that
\* holds a record of its own user
C35_Witness ==
  /\ last.op = "load"
  /\ last.applied
  /\ last.c = "c1"
  /\ Synced("c1")
  /\ \E k \in 1..Len(records["c1"]) : records["c1"][k].userId = "u2"
  /\ \E k \in 1..Len(records["c1"]) : records["c1"][k].userId = "u1"

\* C36: a client that is saving comes to a state in which it is not: the
\* flag is cleared after a POST that resolved or was rejected, after a
\* re-fetch that was rejected or not OK, and after a submission of zero
\* chapters that matched no record
C36_SavingEventuallyCleared ==
  \A c \in Clients : isSyncing[c] ~> ~isSyncing[c]

\* a submission whose re-fetch was rejected has ended: the alert is up, no
\* call of the save is left and the flag is cleared
C36_Witness ==
  /\ last.op = "dailyThrow"
  /\ last.alert = "save failed"
  /\ ~isSyncing[last.c]
  /\ \A k \in 1..Len(procs[last.c]) : procs[last.c][k].kind = "load"

\* C37: a save action that ends without a POST, a submission of zero
\* chapters that matched no record or one whose re-fetch threw, leaves the
\* client outside the cooldown window; stated for the first save action of
\* a run, before which no POST can have started the cooldown
C37_NoPushNoCooldown ==
  [][\A c \in Clients : \A i \in 1..MaxProcs :
       (/\ ops = 1
        /\ \/ DailyThrow(c, i)
           \/ /\ \E ok \in BOOLEAN : DailyCompute(c, i, ok)
              /\ PushCount(procs'[c]) = PushCount(procs[c]))
       => /\ ~InCooldown(now', lastSaveTime'[c])
          /\ ~isFetching'[c] => CanTrigger(c)']_vars

\* ---------------------------------------------------- restoring the backup
\* kind "restore": handleLoadBackup awaiting its GET of the backup store
RestoreProc ==
  [kind |-> "restore", stage |-> "sent", silent |-> FALSE, data |-> EmptyDoc,
   a |-> NoArgs, profile |-> NoProfile, seen |-> 0]

\* handleLoadBackup, confirmed, up to its await; the button is in the admin
\* panel
HandleLoadBackup(c) ==
  /\ mounted[c]
  /\ ~isLoading[c]
  /\ isAdminMode[c]
  /\ Len(procs[c]) < MaxProcs
  /\ ops < MaxOps
  /\ ops' = ops + 1
  /\ isLoading' = [isLoading EXCEPT ![c] = TRUE]
  /\ procs' = [procs EXCEPT ![c] = Append(@, RestoreProc)]
  /\ last' = NoStep
  /\ UNCHANGED << tabs, restored, board, backup, now, nextId, remote,
                  dataVars, cacheVars, uiVars, histVars, isSyncing,
                  isFetching, lastSaveTime >>

\* handleLoadBackup after its await: the backup store answered; with
\* res.ok the stamp is set, the document applied and the success alerted
RestoreDeliver(c, i, ok) ==
  /\ i \in 1..Len(procs[c])
  /\ procs[c][i].kind = "restore"
  /\ backup.up
  /\ IF ok
     THEN /\ lastSaveTime' = [lastSaveTime EXCEPT ![c] = 0]
          /\ UpdateLocalStateAt(c, backup.doc, 0)
          /\ restored' = [restored EXCEPT ![c] = ~InCooldown(now, 0)]
          /\ last' = Step("restore", c, NoArgs, TRUE, 0, 0,
                          ~InCooldown(now, 0), "restored")
     ELSE /\ last' = Step("restore", c, NoArgs, FALSE, 0, 0, FALSE, "")
          /\ UNCHANGED << lastSaveTime, dataVars, cacheVars, restored >>
  /\ isLoading' = [isLoading EXCEPT ![c] = FALSE]
  /\ procs' = [procs EXCEPT ![c] = RemoveAt(@, i)]
  /\ UNCHANGED << tabs, board, backup, now, nextId, ops, remote, uiVars,
                  histVars, isSyncing, isFetching >>

\* handleLoadBackup after its GET was rejected: catch and finally
RestoreFail(c, i) ==
  /\ i \in 1..Len(procs[c])
  /\ procs[c][i].kind = "restore"
  /\ isLoading' = [isLoading EXCEPT ![c] = FALSE]
  /\ procs' = [procs EXCEPT ![c] = RemoveAt(@, i)]
  /\ last' = Step("restore", c, NoArgs, FALSE, 0, 0, FALSE,
                  "restore failed")
  /\ UNCHANGED << tabs, restored, board, backup, now, nextId, ops, remote,
                  dataVars, cacheVars, uiVars, histVars, isSyncing,
                  isFetching, lastSaveTime >>

\* the administrator's browser: submissions, their pushes and PUTs, polls
\* and restores of the backup; the clock stands still
NextRestore ==
  \/ \E c \in Clients : Mount(c)
  \/ \E c \in Clients : TimerTick(c)
  \/ LoadSteps
  \/ \E c \in Clients : \E ch \in ChapterInputs : SubmitToday(c, ch)
  \/ \E c \in Clients : \E i \in 1..MaxProcs : \E ok \in BOOLEAN :
       DailyCompute(c, i, ok)
  \/ \E c \in Clients : \E i \in 1..MaxProcs : DailyThrow(c, i)
  \/ PushSteps
  \/ \E doc \in backup.puts : BackupArrive(doc)
  \/ \E doc \in backup.puts : BackupFail(doc)
  \/ \E c \in Clients : HandleAdminLogin(c, "djcjbch")
  \/ \E c \in Clients : HandleLoadBackup(c)
  \/ \E c \in Clients : \E i \in 1..MaxProcs : \E ok \in BOOLEAN :
       RestoreDeliver(c, i, ok)
  \/ \E c \in Clients : \E i \in 1..MaxProcs : RestoreFail(c, i)

SpecRestore == InitBackup /\ [][NextRestore]_vars

\* C38: from the step that applied a restored backup with records until
\* the client's next save, no step changes the records, ledger, users or
\* departments of the client: a poll of the primary store that is delivered
\* in between leaves the restored document in place
C38_RestoreSurvivesPolls ==
  [][\A c \in Clients :
       (/\ restored[c] /\ restored'[c] /\ last'.op # "restore"
        /\ records[c] # << >>)
       => /\ records'[c] = records[c]
          /\ popHistory'[c] = popHistory[c]
          /\ allUsers'[c] = allUsers[c]
          /\ departments'[c] = departments[c]]_vars
====
